---- MODULE Spec2Model ----
(***************************************************************************)
(* Verification model of the ReSTIR direct-lighting resampling engine     *)
(* (Source/Modules/ReSTIRGDI): the reservoir arithmetic of the shaders    *)
(* and the per-frame schedule of the host class ReSTIRGDI.                *)
(*                                                                         *)
(* Shader floats are modelled as exact extended rationals <<n, d>>:       *)
(* d > 0 is the finite value n/d in lowest terms, and d = 0 encodes the   *)
(* IEEE-754 specials: <<1,0>> = +Inf, <<-1,0>> = -Inf, <<0,0>> = NaN.     *)
(* Division by zero, Inf - Inf, 0 * Inf and comparisons with NaN follow   *)
(* IEEE-754; rounding is not modelled.                                     *)
(***************************************************************************)
EXTENDS Integers, Sequences, FiniteSets, TLC

(***************************************************************************)
(* Float arithmetic                                                        *)
(***************************************************************************)
Abs(x) == IF x < 0 THEN -x ELSE x

Sgn(x) == IF x < 0 THEN -1 ELSE IF x > 0 THEN 1 ELSE 0

RECURSIVE Gcd(_, _)
Gcd(a, b) == IF b = 0 THEN a ELSE Gcd(b, a % b)

NaN == <<0, 0>>

PosInf == <<1, 0>>

NegInf == <<-1, 0>>

Zero == <<0, 1>>

One == <<1, 1>>

Half == <<1, 2>>

Two == <<2, 1>>

\* the float n/d, d > 0, in lowest terms
Rat(n, d) == LET g == Gcd(Abs(n), d) IN <<n \div g, d \div g>>

\* float(i) of an integer
FromInt(i) == <<i, 1>>

IsNaN(x) == x = NaN

IsInf(x) == x = PosInf \/ x = NegInf

IsFinite(x) == x[2] > 0

\* sign of a non-NaN float
SignOf(x) == Sgn(x[1])

FAdd(x, y) ==
    IF IsNaN(x) \/ IsNaN(y) THEN NaN
    ELSE IF IsInf(x) /\ IsInf(y) THEN (IF x = y THEN x ELSE NaN)
    ELSE IF IsInf(x) THEN x
    ELSE IF IsInf(y) THEN y
    ELSE Rat(x[1] * y[2] + y[1] * x[2], x[2] * y[2])

FNeg(x) == <<-x[1], x[2]>>

FSub(x, y) == FAdd(x, FNeg(y))

FMul(x, y) ==
    IF IsNaN(x) \/ IsNaN(y) THEN NaN
    ELSE IF IsInf(x) \/ IsInf(y)
         THEN (IF SignOf(x) * SignOf(y) = 0 THEN NaN ELSE <<SignOf(x) * SignOf(y), 0>>)
    ELSE Rat(x[1] * y[1], x[2] * y[2])

FDiv(x, y) ==
    IF IsNaN(x) \/ IsNaN(y) THEN NaN
    ELSE IF IsInf(x) THEN (IF IsInf(y) THEN NaN
                           ELSE IF SignOf(y) < 0 THEN FNeg(x) ELSE x)
    ELSE IF IsInf(y) THEN Zero
    ELSE IF y[1] = 0 THEN (IF x[1] = 0 THEN NaN ELSE <<SignOf(x), 0>>)
    ELSE Rat(x[1] * y[2] * Sgn(y[1]), x[2] * Abs(y[1]))

\* x < y; false when either side is NaN
FLt(x, y) ==
    IF IsNaN(x) \/ IsNaN(y) THEN FALSE
    ELSE IF x = y THEN FALSE
    ELSE IF x = NegInf \/ y = PosInf THEN TRUE
    ELSE IF x = PosInf \/ y = NegInf THEN FALSE
    ELSE x[1] * y[2] < y[1] * x[2]

FGt(x, y) == FLt(y, x)

FLe(x, y) == ~IsNaN(x) /\ ~IsNaN(y) /\ ~FLt(y, x)

FGe(x, y) == FLe(y, x)

\* x == y on floats (NaN compares unequal to everything)
FEq(x, y) == ~IsNaN(x) /\ ~IsNaN(y) /\ x = y

\* HLSL min/max return the other operand when one is NaN
FMin(x, y) == IF IsNaN(x) THEN y ELSE IF IsNaN(y) THEN x ELSE IF FLt(y, x) THEN y ELSE x

FMax(x, y) == IF IsNaN(x) THEN y ELSE IF IsNaN(y) THEN x ELSE IF FLt(x, y) THEN y ELSE x

FClamp(x, lo, hi) == FMin(FMax(x, lo), hi)

\* pow(x, 8) for x >= 0
FPow8(x) ==
    LET sq(v) == FMul(v, v) IN sq(sq(sq(x)))

\* uint(x): truncation towards zero; NaN and negative values give 0
ToUint(x) ==
    IF ~IsFinite(x) \/ x[1] < 0 THEN 0 ELSE x[1] \div x[2]

(***************************************************************************)
(* Reservoir and RisState (Reservoir.slang, Resampling.slang)              *)
(***************************************************************************)
Invalid == "Invalid"

\* LightSample::isValid
isValid(lightSample) == lightSample # Invalid

\* Reservoir::createEmpty(pathSample)
ReservoirCreateEmpty(pathSample) ==
    [lightSample |-> Invalid, M |-> 0, weight |-> Zero,
     pathSample |-> pathSample, targetPdf |-> Zero]

\* RisState::createEmpty(pathSample) and RisState::createEmpty(reservoir)
RisCreateEmpty(pathSample) ==
    [lightSample |-> Invalid, pathSample |-> pathSample, weightSum |-> Zero,
     M |-> Zero, weight |-> Zero, targetPdf |-> Zero, canonicalWeight |-> Zero]

\* variant: toReservoir without the Inf/NaN test
toReservoir_unguarded(state) ==
    [lightSample |-> state.lightSample, M |-> ToUint(state.M),
     weight |-> state.weight, pathSample |-> state.pathSample,
     targetPdf |-> state.targetPdf]

\* RisState::toReservoir
toReservoir(state) ==
    IF IsInf(state.weight) \/ IsNaN(state.weight)
    THEN ReservoirCreateEmpty(state.pathSample)
    ELSE [lightSample |-> state.lightSample, M |-> ToUint(state.M),
          weight |-> state.weight, pathSample |-> state.pathSample,
          targetPdf |-> state.targetPdf]

\* risState.weight = risState.targetPdf > 0.f ? risState.weightSum / risState.targetPdf : 0.f
FinalizeWeight(state) ==
    [state EXCEPT !.weight = IF FGt(state.targetPdf, Zero)
                             THEN FDiv(state.weightSum, state.targetPdf)
                             ELSE Zero]

\* variant: a candidate that is not selected is not counted
streamingInitialResampleMIS_countsSelected(state, lightSample, targetPdf, sourcePdf, misWeight, u) ==
    LET sampleWeight == FDiv(FMul(misWeight, targetPdf), sourcePdf)
        weightSum    == FAdd(state.weightSum, sampleWeight)
    IN IF FLt(FMul(u, weightSum), sampleWeight)
       THEN [state EXCEPT !.weightSum = weightSum, !.M = FAdd(state.M, One),
                          !.lightSample = lightSample, !.targetPdf = targetPdf]
       ELSE [state EXCEPT !.weightSum = weightSum]

\* streamingInitialResampleMIS for a light sample; u is the drawn sampleNext1D(sg)
streamingInitialResampleMIS(state, lightSample, targetPdf, sourcePdf, misWeight, u) ==
    LET sampleWeight == FDiv(FMul(misWeight, targetPdf), sourcePdf)
        weightSum    == FAdd(state.weightSum, sampleWeight)
        selectSample == FLt(FMul(u, weightSum), sampleWeight)
        s1 == [state EXCEPT !.weightSum = weightSum, !.M = FAdd(state.M, One)]
    IN IF selectSample
       THEN [s1 EXCEPT !.lightSample = lightSample, !.targetPdf = targetPdf]
       ELSE s1

\* streamingInitialResampleMIS for a path sample
streamingInitialResamplePath(state, pathSample, targetPdf, sourcePdf, misWeight, u) ==
    LET sampleWeight == FDiv(FMul(misWeight, targetPdf), sourcePdf)
        weightSum    == FAdd(state.weightSum, sampleWeight)
        selectSample == FLt(FMul(u, weightSum), sampleWeight)
        s1 == [state EXCEPT !.weightSum = weightSum, !.M = FAdd(state.M, One)]
    IN IF selectSample
       THEN [s1 EXCEPT !.pathSample = pathSample, !.targetPdf = targetPdf]
       ELSE s1

\* variant: the ratio of the smaller to the larger value, to the power 8
mFactor_symmetric(q0, q1) ==
    IF FEq(FMax(q0, q1), Zero) THEN One
    ELSE FClamp(FPow8(FDiv(FMin(q0, q1), FMax(q0, q1))), Zero, One)

mFactor(q0, q1) ==
    IF FEq(q0, Zero) THEN One
    ELSE FClamp(FPow8(FMin(FDiv(q1, q0), One)), Zero, One)

pairwiseMIS_nonDefensiveNonCanonical(mSum, mCandidate, pi, mCanonical, pc) ==
    IF FEq(pc, Zero) THEN Zero
    ELSE FDiv(FMul(mCandidate, pi),
              FAdd(FMul(FSub(mSum, mCanonical), pi), FMul(mCanonical, pc)))

pairwiseMIS_nonDefensiveCanonical(mSum, mCandidate, pi, mCanonical, pc) ==
    LET w == FMul(mCanonical, pc) IN
    IF FEq(pc, Zero) THEN Zero
    ELSE FDiv(FMul(FDiv(mCandidate, FSub(mSum, mCanonical)), w),
              FAdd(FMul(FSub(mSum, mCanonical), pi), w))

pairwiseMIS_defensiveNonCanonical(mSum, mCandidate, pi, mCanonical, pc) ==
    LET w == FMul(FSub(mSum, mCanonical), pi) IN
    IF FEq(pc, Zero) THEN Zero
    ELSE FDiv(FMul(FDiv(mCandidate, mSum), w), FAdd(w, FMul(mCanonical, pc)))

pairwiseMIS_defensiveCanonical(mSum, mCandidate, pi, mCanonical, pc) ==
    LET w == FMul(mCanonical, pc) IN
    IF FEq(pc, Zero) THEN Zero
    ELSE FDiv(FMul(FDiv(mCandidate, mSum), w),
              FAdd(FMul(FSub(mSum, mCanonical), pi), w))

\* min() on uint
UMin(a, b) == IF a < b THEN a ELSE b

(***************************************************************************)
(* Target function (EvalContext.slang).  The light database and the BSDF   *)
(* are external: pHatRaw is the value max(0, emission * geomFactor * brdf) *)
(* * visibility they produce for a valid light sample on a valid surface,  *)
(* emissionLum is luminance(emission) of the surface.                      *)
(***************************************************************************)
\* evaluatedLightSample.dir of LoadedLightSample::eval is all zero for an invalid sample
LoadedDirIsZero(lightSample) == ~isValid(lightSample)

\* EvalContext::evalTargetFunction
evalTargetFunction(surfaceValid, lightSample, pathSample, pHatRaw, emissionLum) ==
    IF ~surfaceValid /\ pathSample = 2 THEN Zero
    ELSE IF pathSample = 1 THEN emissionLum
    ELSE IF pathSample = 2 /\ surfaceValid /\ ~LoadedDirIsZero(lightSample) THEN pHatRaw
    ELSE Zero

(***************************************************************************)
(* Pairwise-MIS merges and finalisation (Resampling.slang)                 *)
(***************************************************************************)
\* float mScaler = min(mFactor(...), mFactor(...)) of both pairwise merges
mScaler(candidateTargetPdf, candAtOther, canonAtOther, canonicalTargetPdf) ==
    FMin(mFactor(candidateTargetPdf, candAtOther), mFactor(canonAtOther, canonicalTargetPdf))

\* variant: a selected history sample brings its pathSample along
temporalResamplePointReservoirPairwiseMIS_takesPath(state, canonicalReservoir, candidateReservoir, useMFactor, confidenceWeightSum, intersectAreaSize, candAtOther, canonAtOther, u) ==
    LET canonicalTargetPdf == canonicalReservoir.targetPdf
        candidateTargetPdf == candidateReservoir.targetPdf
        candidateConfidenceWeight == FMul(FromInt(candidateReservoir.M), intersectAreaSize)
        m0 == pairwiseMIS_nonDefensiveNonCanonical(confidenceWeightSum, candidateConfidenceWeight,
                  candidateTargetPdf, FromInt(canonicalReservoir.M), candAtOther)
        m1 == pairwiseMIS_nonDefensiveCanonical(confidenceWeightSum, candidateConfidenceWeight,
                  canonAtOther, FromInt(canonicalReservoir.M), canonicalTargetPdf)
        sampleWeight == FMul(FMul(candAtOther, candidateReservoir.weight), m0)
        weightSum == FAdd(state.weightSum, sampleWeight)
        s1 == [state EXCEPT
                 !.M = FAdd(state.M, FMul(candidateConfidenceWeight,
                                          IF useMFactor
                                          THEN mScaler(candidateTargetPdf, candAtOther,
                                                       canonAtOther, canonicalTargetPdf)
                                          ELSE One)),
                 !.weightSum = weightSum,
                 !.canonicalWeight = FAdd(state.canonicalWeight, m1)]
        selectSample == FLt(FMul(u, weightSum), sampleWeight)
    IN IF selectSample
       THEN [s1 EXCEPT !.lightSample = candidateReservoir.lightSample,
                       !.targetPdf = candAtOther,
                       !.pathSample = candidateReservoir.pathSample]
       ELSE s1

\* temporalResamplePointReservoirPairwiseMIS; candAtOther = Pc(Xi), canonAtOther = Pi(Xc)
temporalResamplePointReservoirPairwiseMIS(state, canonicalReservoir, candidateReservoir, useMFactor, confidenceWeightSum, intersectAreaSize, candAtOther, canonAtOther, u) ==
    LET canonicalTargetPdf == canonicalReservoir.targetPdf
        candidateTargetPdf == candidateReservoir.targetPdf
        candidateConfidenceWeight == FMul(FromInt(candidateReservoir.M), intersectAreaSize)
        m0 == pairwiseMIS_nonDefensiveNonCanonical(confidenceWeightSum, candidateConfidenceWeight,
                  candidateTargetPdf, FromInt(canonicalReservoir.M), candAtOther)
        m1 == pairwiseMIS_nonDefensiveCanonical(confidenceWeightSum, candidateConfidenceWeight,
                  canonAtOther, FromInt(canonicalReservoir.M), canonicalTargetPdf)
        sampleWeight == FMul(FMul(candAtOther, candidateReservoir.weight), m0)
        weightSum == FAdd(state.weightSum, sampleWeight)
        s1 == [state EXCEPT
                 !.M = FAdd(state.M, FMul(candidateConfidenceWeight,
                                          IF useMFactor
                                          THEN mScaler(candidateTargetPdf, candAtOther,
                                                       canonAtOther, canonicalTargetPdf)
                                          ELSE One)),
                 !.weightSum = weightSum,
                 !.canonicalWeight = FAdd(state.canonicalWeight, m1)]
        selectSample == FLt(FMul(u, weightSum), sampleWeight)
    IN IF selectSample
       THEN [s1 EXCEPT !.lightSample = candidateReservoir.lightSample,
                       !.targetPdf = candAtOther]
       ELSE s1

\* spatialResamplePointReservoirPairwiseMIS
spatialResamplePointReservoirPairwiseMIS(state, canonicalReservoir, candidateReservoir, useMFactor, confidenceWeightSum, candAtOther, canonAtOther, u) ==
    LET canonicalTargetPdf == canonicalReservoir.targetPdf
        candidateTargetPdf == candidateReservoir.targetPdf
        candidateConfidenceWeight == FromInt(candidateReservoir.M)
        m0 == pairwiseMIS_defensiveNonCanonical(confidenceWeightSum, candidateConfidenceWeight,
                  candidateTargetPdf, FromInt(canonicalReservoir.M), candAtOther)
        m1 == pairwiseMIS_defensiveCanonical(confidenceWeightSum, candidateConfidenceWeight,
                  canonAtOther, FromInt(canonicalReservoir.M), canonicalTargetPdf)
        sampleWeight == FMul(FMul(candAtOther, candidateReservoir.weight), m0)
        weightSum == FAdd(state.weightSum, sampleWeight)
        s1 == [state EXCEPT
                 !.M = FAdd(state.M, FMul(candidateConfidenceWeight,
                                          IF useMFactor
                                          THEN mScaler(candidateTargetPdf, candAtOther,
                                                       canonAtOther, canonicalTargetPdf)
                                          ELSE One)),
                 !.weightSum = weightSum,
                 !.canonicalWeight = FAdd(state.canonicalWeight, m1)]
        selectSample == FLt(FMul(u, weightSum), sampleWeight)
    IN IF selectSample
       THEN [s1 EXCEPT !.lightSample = candidateReservoir.lightSample,
                       !.targetPdf = candAtOther]
       ELSE s1

\* variant: the final merge without the canonical M
streamingResampleFinalizeMis_withoutM(state, canonicalReservoir, canonicalTargetPdf, u) ==
    LET sampleWeight == FMul(FMul(state.canonicalWeight, canonicalTargetPdf),
                             canonicalReservoir.weight)
        weightSum == FAdd(state.weightSum, sampleWeight)
        s1 == [state EXCEPT !.weightSum = weightSum]
    IN IF FLt(FMul(u, weightSum), sampleWeight)
       THEN [s1 EXCEPT !.targetPdf = canonicalTargetPdf,
                       !.lightSample = canonicalReservoir.lightSample,
                       !.pathSample = canonicalReservoir.pathSample]
       ELSE s1

\* streamingResampleFinalizeMis
streamingResampleFinalizeMis(state, canonicalReservoir, canonicalTargetPdf, u) ==
    LET sampleWeight == FMul(FMul(state.canonicalWeight, canonicalTargetPdf),
                             canonicalReservoir.weight)
        weightSum == FAdd(state.weightSum, sampleWeight)
        s1 == [state EXCEPT !.M = FAdd(state.M, FromInt(canonicalReservoir.M)),
                            !.weightSum = weightSum]
        selectSample == FLt(FMul(u, weightSum), sampleWeight)
    IN IF selectSample
       THEN [s1 EXCEPT !.targetPdf = canonicalTargetPdf,
                       !.lightSample = canonicalReservoir.lightSample,
                       !.pathSample = canonicalReservoir.pathSample]
       ELSE s1

(***************************************************************************)
(* TemporalResampling::process for one pixel whose reprojection is valid.  *)
(* in = [candRaw, canonRaw : raw target values, u1, u2 : random draws]     *)
(***************************************************************************)
\* variant: the history M taken over as stored
ClampedHistoryM_unclamped(prevM, currentM, kMaxHistoryLength) == prevM

\* prevReservoir.M = min(prevReservoir.M, currentReservoir.M * kMaxHistoryLength)
\* (uint; the M values of the model stay far below the 32-bit range, so no wrap-around)
ClampedHistoryM(prevM, currentM, kMaxHistoryLength) ==
    UMin(prevM, currentM * kMaxHistoryLength)

TemporalRis(currentReservoir, currentValid, prevReservoirIn, prevValid, kMaxHistoryLength, useMFactor, in) ==
    LET prevReservoir == [prevReservoirIn EXCEPT
            !.M = ClampedHistoryM(prevReservoirIn.M, currentReservoir.M, kMaxHistoryLength)]
        risState == RisCreateEmpty(currentReservoir.pathSample)
        confidenceWeightSum == FromInt(prevReservoir.M + currentReservoir.M)
        candAtOther == evalTargetFunction(currentValid, prevReservoir.lightSample, 2,
                                          in.candRaw, Zero)
        canonAtOther == evalTargetFunction(prevValid, currentReservoir.lightSample, 2,
                                           in.canonRaw, Zero)
        s1 == temporalResamplePointReservoirPairwiseMIS(risState, currentReservoir,
                  prevReservoir, useMFactor, confidenceWeightSum, One,
                  candAtOther, canonAtOther, in.u1)
        s2 == streamingResampleFinalizeMis(s1, currentReservoir,
                  currentReservoir.targetPdf, in.u2)
    IN FinalizeWeight(s2)

(***************************************************************************)
(* SpatialResampling::process for one pixel.  neigh is the sequence of the *)
(* accepted neighbours, each [res, valid, candRaw, canonRaw, u].           *)
(***************************************************************************)
RECURSIVE SumNeighborM(_, _)
SumNeighborM(acc, neigh) ==
    IF neigh = <<>> THEN acc
    ELSE SumNeighborM(FAdd(acc, FromInt(Head(neigh).res.M)), Tail(neigh))

RECURSIVE SpatialMergeAll(_, _, _, _, _, _)
SpatialMergeAll(state, currentReservoir, currentValid, useMFactor, confidenceWeightSum, neigh) ==
    IF neigh = <<>> THEN state
    ELSE LET n == Head(neigh)
             candAtOther == evalTargetFunction(currentValid, n.res.lightSample, 2,
                                               n.candRaw, Zero)
             canonAtOther == evalTargetFunction(n.valid, currentReservoir.lightSample, 2,
                                                n.canonRaw, Zero)
         IN SpatialMergeAll(
                spatialResamplePointReservoirPairwiseMIS(state, currentReservoir, n.res,
                    useMFactor, confidenceWeightSum, candAtOther, canonAtOther, n.u),
                currentReservoir, currentValid, useMFactor, confidenceWeightSum, Tail(neigh))

SpatialRis(currentReservoir, currentValid, useMFactor, neigh, uFinal) ==
    LET confidenceWeightSum == SumNeighborM(FromInt(currentReservoir.M), neigh)
        risState == [RisCreateEmpty(currentReservoir.pathSample) EXCEPT
            !.canonicalWeight = IF FGt(confidenceWeightSum, Zero)
                                THEN FDiv(FromInt(currentReservoir.M), confidenceWeightSum)
                                ELSE Zero]
        s1 == SpatialMergeAll(risState, currentReservoir, currentValid, useMFactor,
                              confidenceWeightSum, neigh)
        s2 == streamingResampleFinalizeMis(s1, currentReservoir,
                                           currentReservoir.targetPdf, uFinal)
        s3 == [s2 EXCEPT !.M = FromInt(currentReservoir.M)]
    IN FinalizeWeight(s3)

(***************************************************************************)
(* InitialResampling::process for one pixel.  cands is the sequence of the *)
(* light-tile and BRDF candidates, each                                    *)
(*   [technique, light, pLight, pBrdf, pBrdfMis, pHatRaw, u]               *)
(* pLight = evaluatedLightSample.pdf, pBrdf = evalBsdfPDF * geomFactor,    *)
(* pBrdfMis = the p_BRDF of the balance heuristic (0 when cut off).        *)
(***************************************************************************)
\* InitialResampling::evalBalanceHeuristicMIS
evalBalanceHeuristicMIS(pLight, pBrdfMis, technique, kInitialLightSampleCount, kInitialBRDFSampleCount) ==
    IF kInitialBRDFSampleCount > 0
    THEN FDiv(IF technique = "Light" THEN pLight ELSE pBrdfMis,
              FAdd(FMul(FromInt(kInitialLightSampleCount), pLight),
                   FMul(FromInt(kInitialBRDFSampleCount), pBrdfMis)))
    ELSE FDiv(pLight, FMul(FromInt(kInitialLightSampleCount), pLight))

RECURSIVE InitialStream(_, _, _, _)
InitialStream(state, cands, nLight, nBrdf) ==
    IF cands = <<>> THEN state
    ELSE LET c == Head(cands) IN
         IF c.technique = "BRDF" /\ ~isValid(c.light)
         THEN InitialStream([state EXCEPT !.M = FAdd(state.M, One)], Tail(cands), nLight, nBrdf)
         ELSE LET p == IF c.technique = "Light" THEN c.pLight ELSE c.pBrdf
                  misWeight == evalBalanceHeuristicMIS(c.pLight, c.pBrdfMis, c.technique,
                                                       nLight, nBrdf)
                  pHat == evalTargetFunction(TRUE, c.light, 2, c.pHatRaw, Zero)
              IN InitialStream(streamingInitialResampleMIS(state, c.light, pHat, p,
                                                           misWeight, c.u),
                               Tail(cands), nLight, nBrdf)

\* the RIS state at the end of process() for a valid surface
InitialRis(cands, nLight, nBrdf, oneMergedReservoir, emissionLum, uPath, kCheckVisibility, occluded) ==
    LET s1 == InitialStream(RisCreateEmpty(2), cands, nLight, nBrdf)
        s2 == IF oneMergedReservoir
              THEN streamingInitialResamplePath(s1, 1,
                       evalTargetFunction(TRUE, Invalid, 1, Zero, emissionLum),
                       One, One, uPath)
              ELSE s1
        s3 == IF kCheckVisibility /\ isValid(s2.lightSample) /\ s2.pathSample = 2 /\ occluded
              THEN RisCreateEmpty(2)
              ELSE s2
        s4 == FinalizeWeight(s3)
    IN [s4 EXCEPT !.M = One]

\* the reservoir written by process(): background branch or resampled
InitialProcess(surfaceValid, cands, nLight, nBrdf, oneMergedReservoir, emissionLum, uPath, kCheckVisibility, occluded) ==
    IF ~surfaceValid
    THEN [ReservoirCreateEmpty(1) EXCEPT
            !.M = 1,
            !.targetPdf = evalTargetFunction(FALSE, Invalid, 1, Zero, emissionLum),
            !.weight = One]
    ELSE toReservoir(InitialRis(cands, nLight, nBrdf, oneMergedReservoir, emissionLum,
                                uPath, kCheckVisibility, occluded))

(***************************************************************************)
(* Divisions executed with a zero denominator (their result being used)    *)
(***************************************************************************)
ZeroDen(x) == FEq(x, Zero)

\* streamingInitialResampleMIS: misWeight * targetPdf / sourcePdf
DivZero_streamingInitialResampleMIS(sourcePdf) == ZeroDen(sourcePdf)

DivZero_evalBalanceHeuristicMIS(pLight, pBrdfMis, nLight, nBrdf) ==
    IF nBrdf > 0
    THEN ZeroDen(FAdd(FMul(FromInt(nLight), pLight), FMul(FromInt(nBrdf), pBrdfMis)))
    ELSE ZeroDen(FMul(FromInt(nLight), pLight))

DivZero_nonDefensiveNonCanonical(mSum, mCandidate, pi, mCanonical, pc) ==
    /\ ~FEq(pc, Zero)
    /\ ZeroDen(FAdd(FMul(FSub(mSum, mCanonical), pi), FMul(mCanonical, pc)))

DivZero_nonDefensiveCanonical(mSum, mCandidate, pi, mCanonical, pc) ==
    /\ ~FEq(pc, Zero)
    /\ \/ ZeroDen(FSub(mSum, mCanonical))
       \/ ZeroDen(FAdd(FMul(FSub(mSum, mCanonical), pi), FMul(mCanonical, pc)))

DivZero_defensiveNonCanonical(mSum, mCandidate, pi, mCanonical, pc) ==
    /\ ~FEq(pc, Zero)
    /\ \/ ZeroDen(mSum)
       \/ ZeroDen(FAdd(FMul(FSub(mSum, mCanonical), pi), FMul(mCanonical, pc)))

DivZero_defensiveCanonical(mSum, mCandidate, pi, mCanonical, pc) ==
    /\ ~FEq(pc, Zero)
    /\ \/ ZeroDen(mSum)
       \/ ZeroDen(FAdd(FMul(FSub(mSum, mCanonical), pi), FMul(mCanonical, pc)))

\* the divisions of one TemporalResampling::process
DivZero_Temporal(currentReservoir, currentValid, prevReservoirIn, prevValid, kMaxHistoryLength, in) ==
    LET prevM == ClampedHistoryM(prevReservoirIn.M, currentReservoir.M, kMaxHistoryLength)
        mSum == FromInt(prevM + currentReservoir.M)
        candAtOther == evalTargetFunction(currentValid, prevReservoirIn.lightSample, 2,
                                          in.candRaw, Zero)
        canonAtOther == evalTargetFunction(prevValid, currentReservoir.lightSample, 2,
                                           in.canonRaw, Zero)
    IN \/ DivZero_nonDefensiveNonCanonical(mSum, FromInt(prevM), prevReservoirIn.targetPdf,
                                           FromInt(currentReservoir.M), candAtOther)
       \/ DivZero_nonDefensiveCanonical(mSum, FromInt(prevM), canonAtOther,
                                        FromInt(currentReservoir.M), currentReservoir.targetPdf)

\* the divisions of one SpatialResampling::process
DivZero_Spatial(currentReservoir, currentValid, neigh) ==
    LET mSum == SumNeighborM(FromInt(currentReservoir.M), neigh) IN
    \E i \in 1..Len(neigh) :
        LET n == neigh[i]
            candAtOther == evalTargetFunction(currentValid, n.res.lightSample, 2,
                                              n.candRaw, Zero)
            canonAtOther == evalTargetFunction(n.valid, currentReservoir.lightSample, 2,
                                               n.canonRaw, Zero)
        IN \/ DivZero_defensiveNonCanonical(mSum, FromInt(n.res.M), n.res.targetPdf,
                                            FromInt(currentReservoir.M), candAtOther)
           \/ DivZero_defensiveCanonical(mSum, FromInt(n.res.M), canonAtOther,
                                         FromInt(currentReservoir.M), currentReservoir.targetPdf)

\* the divisions of one InitialResampling::process on a valid surface
DivZero_Initial(cands, nLight, nBrdf) ==
    \E i \in 1..Len(cands) :
        LET c == cands[i] IN
        /\ ~(c.technique = "BRDF" /\ ~isValid(c.light))
        /\ \/ DivZero_streamingInitialResampleMIS(
                  IF c.technique = "Light" THEN c.pLight ELSE c.pBrdf)
           \/ DivZero_evalBalanceHeuristicMIS(c.pLight, c.pBrdfMis, nLight, nBrdf)

(***************************************************************************)
(* Pixel pipeline: the reservoirs of NumPixels pixels of one ReSTIR pass   *)
(* carried through the stages of MaxFrames frames.                         *)
(***************************************************************************)
VARIABLES frameIndex, stage, thread, spatialIter, cfg,
          reservoirs, prevReservoirs, resEvalContext, prevResEvalContext, written,
          unblockedRay, last

pixVars == <<frameIndex, stage, thread, spatialIter, cfg,
             reservoirs, prevReservoirs, resEvalContext, prevResEvalContext, written,
             unblockedRay, last>>

NumPixels == 2

MaxFrames == 2

MaxHistory == 2

MaxLightSamples == 2

MaxNeighbors == 1

Pixels == 0..(NumPixels - 1)

OutOfBounds == NumPixels

\* the content of a buffer entry no thread has written yet
Unwritten == [unwritten |-> TRUE]

LightIds == {"L1"}

PdfValues == {Zero, One}

UValues == {Zero, Half}

\* static configurations of the pass (Options of the host, fixed over the run): reuse
\* without history (maxHistoryLength 0) after the visibility test, temporal reuse with
\* BRDF candidates and final visibility, temporal and spatial reuse together
PixConfigs ==
    { c \in [useTemporalResampling : {TRUE}, useSpatialResampling : BOOLEAN,
             spatialIterations : {1}, spatialNeighborCount : {MaxNeighbors},
             maxHistoryLength : {0, MaxHistory}, useMFactor : BOOLEAN,
             useInitialVisibility : BOOLEAN, useFinalVisibility : BOOLEAN,
             initialLightSampleCount : {1, MaxLightSamples},
             initialBRDFSampleCount : {0, 1}] :
        /\ (c.maxHistoryLength = 0 =>
               /\ c.useSpatialResampling /\ ~c.useMFactor /\ c.useInitialVisibility
               /\ ~c.useFinalVisibility
               /\ c.initialLightSampleCount = MaxLightSamples
               /\ c.initialBRDFSampleCount = 0)
        /\ (c.maxHistoryLength > 0 /\ ~c.useSpatialResampling =>
               /\ c.useMFactor /\ ~c.useInitialVisibility /\ c.useFinalVisibility
               /\ c.initialLightSampleCount = 1 /\ c.initialBRDFSampleCount = 1)
        /\ (c.maxHistoryLength > 0 /\ c.useSpatialResampling =>
               /\ c.useMFactor /\ ~c.useInitialVisibility /\ ~c.useFinalVisibility
               /\ c.initialLightSampleCount = 1 /\ c.initialBRDFSampleCount = 0) }

\* bool checkVisibility = useInitialVisibility & (useTemporalResampling || useSpatialResampling)
CheckVisibility(c) ==
    c.useInitialVisibility /\ (c.useTemporalResampling \/ c.useSpatialResampling)

\* per-pixel G-buffer entries: a valid surface, or background with its emission
SurfaceKinds == { [valid |-> TRUE, emissionLum |-> Zero],
                  [valid |-> FALSE, emissionLum |-> One] }

\* candidates of the light-tile loop
LightCandidates(c) ==
    [technique : {"Light"}, light : LightIds \cup {Invalid}, pLight : {Zero, One},
     pBrdf : {Zero},
     pBrdfMis : IF c.initialBRDFSampleCount > 0 THEN {Zero, One} ELSE {Zero},
     pHatRaw : PdfValues, u : UValues]

\* candidates of the BRDF loop
BrdfCandidates ==
    { c \in [technique : {"BRDF"}, light : LightIds \cup {Invalid}, pLight : {Zero, One},
              pBrdf : {Zero, One}, pBrdfMis : {Zero, One}, pHatRaw : PdfValues,
              u : UValues] : c.pBrdfMis \in {Zero, c.pBrdf} }

CandidateSeqs(c) ==
    { l \o b : l \in [1..c.initialLightSampleCount -> LightCandidates(c)],
               b \in [1..c.initialBRDFSampleCount -> BrdfCandidates] } \cup {<<>>}

NoReservoir == ReservoirCreateEmpty(0)

\* the entries of each buffer written since the frame began; the content of the
\* pixel-centre contexts is not kept (it only feeds the neighbour tests of the spatial pass)
NoWrites ==
    [reservoirs |-> {}, prevReservoirs |-> {}, resEvalContext |-> {},
     prevResEvalContext |-> {}, pixelCenterEvalContext |-> {},
     prevPixelCenterEvalContext |-> {}]

NoLast == [stage |-> "none", pixel |-> 0, wrote |-> FALSE, canonical |-> NoReservoir,
           candidatesEmpty |-> FALSE, merged |-> 0, risWeight |-> Zero,
           out |-> NoReservoir, divZero |-> FALSE, readStale |-> FALSE,
           surfaceValid |-> FALSE, Li |-> Zero]

PixStart ==
    /\ frameIndex = 1
    /\ stage = "idle"
    /\ thread = 0
    /\ spatialIter = 0
    /\ cfg \in PixConfigs
    /\ reservoirs = [p \in Pixels |-> Unwritten]
    /\ prevReservoirs = [p \in Pixels |-> Unwritten]
    /\ resEvalContext = [p \in Pixels |-> Unwritten]
    /\ prevResEvalContext = [p \in Pixels |-> Unwritten]
    /\ written = NoWrites
    /\ unblockedRay = FALSE
    /\ last = NoLast

\* the host starts updateReSTIRDI for the next frame
PixBeginFrame ==
    /\ stage = "idle"
    /\ frameIndex <= MaxFrames
    /\ stage' = "initial"
    /\ thread' = 0
    /\ spatialIter' = 0
    /\ written' = NoWrites
    /\ last' = NoLast
    /\ UNCHANGED <<frameIndex, cfg, reservoirs, prevReservoirs, resEvalContext,
                   prevResEvalContext, unblockedRay>>

\* temporalResampling() returns early on a reset frame or when disabled
TemporalRuns == frameIndex > 1 /\ cfg.useTemporalResampling

\* position after the last thread of a dispatch
StageAfter(s) ==
    IF s = "initial" /\ TemporalRuns THEN "temporal" ELSE
    IF s = "final" THEN "endFrame" ELSE "spatialLoop"

Advance(s) ==
    IF thread + 1 < NumPixels
    THEN /\ thread' = thread + 1
         /\ stage' = s
         /\ spatialIter' = spatialIter
    ELSE /\ thread' = 0
         /\ stage' = StageAfter(s)
         /\ spatialIter' = IF s = "spatial" THEN spatialIter + 1 ELSE spatialIter

\* what one InitialResampling::process can leave behind for a configuration: the
\* reservoir and context written, the computed RIS weight, whether a division by zero ran
InitialOutcome(c, sd, cands, occluded) ==
    LET ris == InitialRis(cands, c.initialLightSampleCount, c.initialBRDFSampleCount,
                          FALSE, sd.emissionLum, Zero, CheckVisibility(c), occluded)
        out == InitialProcess(sd.valid, cands, c.initialLightSampleCount,
                              c.initialBRDFSampleCount, FALSE, sd.emissionLum, Zero,
                              CheckVisibility(c), occluded)
        selected == InitialRis(cands, c.initialLightSampleCount, c.initialBRDFSampleCount,
                               FALSE, sd.emissionLum, Zero, FALSE, FALSE)
    IN [out |-> out, context |-> sd,
        unblockedRay |-> /\ sd.valid /\ CheckVisibility(c) /\ ~occluded
                         /\ isValid(selected.lightSample) /\ selected.pathSample = 2,
        risWeight |-> IF sd.valid THEN ris.weight ELSE One,
        divZero |-> sd.valid /\ DivZero_Initial(cands, c.initialLightSampleCount,
                                                c.initialBRDFSampleCount)]

\* (f @@ g is f extended by g: the table is tabulated once)
InitialOutcomes ==
    (<<>>) @@ [c \in PixConfigs |->
        { InitialOutcome(c, x[1], x[2], x[3]) :
            x \in { y \in SurfaceKinds \X CandidateSeqs(c) \X BOOLEAN :
                      /\ (~y[1].valid => y[2] = <<>> /\ ~y[3])
                      /\ (y[1].valid => Len(y[2]) = c.initialLightSampleCount
                                                    + c.initialBRDFSampleCount)
                      /\ (~CheckVisibility(c) => ~y[3]) } }]

\* one thread of InitialResampling::process
PixInitialThread ==
    /\ stage = "initial"
    /\ \E o \in InitialOutcomes[cfg] :
          /\ reservoirs' = [reservoirs EXCEPT ![thread] = o.out]
          /\ resEvalContext' = [resEvalContext EXCEPT ![thread] = o.context]
          /\ written' = [written EXCEPT
                 !.reservoirs = @ \cup {thread},
                 !.resEvalContext = @ \cup {thread},
                 !.pixelCenterEvalContext = IF o.context.valid THEN @ \cup {thread} ELSE @]
          /\ unblockedRay' = (unblockedRay \/ o.unblockedRay)
          /\ last' = [NoLast EXCEPT !.stage = "initial", !.pixel = thread, !.wrote = TRUE,
                         !.risWeight = o.risWeight, !.out = o.out, !.divZero = o.divZero]
    /\ Advance("initial")
    /\ UNCHANGED <<frameIndex, cfg, prevReservoirs, prevResEvalContext>>

\* Reservoir::createEmpty up to its pathSample: M = 0, weight = 0, invalid light sample
IsEmptyReservoir(r) == r.M = 0 /\ r.weight = Zero /\ ~isValid(r.lightSample)

\* (u1 is the draw of the merge into the still empty RIS state, where every draw in [0, 1)
\* selects alike; u2 is the draw of the final merge of the canonical sample)
TemporalInputs == [candRaw : PdfValues, canonRaw : PdfValues, u1 : {Half}, u2 : UValues]

\* the raw target values evalTargetFunction can come to use for a sample on a surface
RawValues(surfaceValid, lightSample) ==
    IF surfaceValid /\ ~LoadedDirIsZero(lightSample) THEN PdfValues ELSE {Zero}

\* one thread of TemporalResampling::process
PixTemporalThread ==
    /\ stage = "temporal"
    /\ \E prevPixel \in Pixels \cup {OutOfBounds} :
          IF prevPixel = OutOfBounds
          THEN /\ last' = [NoLast EXCEPT !.stage = "temporal", !.pixel = thread]
               /\ UNCHANGED <<reservoirs, resEvalContext, written>>
          ELSE \E in \in { i \in TemporalInputs :
                              /\ i.candRaw \in RawValues(resEvalContext[thread].valid,
                                                         prevReservoirs[prevPixel].lightSample)
                              /\ i.canonRaw \in RawValues(prevResEvalContext[prevPixel].valid,
                                                          reservoirs[thread].lightSample) } :
               \E ris \in { TemporalRis(reservoirs[thread], resEvalContext[thread].valid,
                                prevReservoirs[prevPixel], prevResEvalContext[prevPixel].valid,
                                cfg.maxHistoryLength, cfg.useMFactor, in) } :
               \E out \in { toReservoir(ris) } :
               LET currentReservoir == reservoirs[thread]
                   prevReservoir == prevReservoirs[prevPixel]
                   currentContext == resEvalContext[thread]
                   prevContext == prevResEvalContext[prevPixel]
               IN /\ reservoirs' = [reservoirs EXCEPT ![thread] = out]
                  /\ resEvalContext' = [resEvalContext EXCEPT ![thread] = currentContext]
                  /\ written' = [written EXCEPT !.reservoirs = @ \cup {thread},
                                                !.resEvalContext = @ \cup {thread}]
                  /\ last' = [NoLast EXCEPT !.stage = "temporal", !.pixel = thread,
                                 !.wrote = TRUE, !.canonical = currentReservoir,
                                 !.readStale = \/ thread \notin written.reservoirs
                                               \/ thread \notin written.resEvalContext,
                                 !.candidatesEmpty = IsEmptyReservoir(prevReservoir),
                                 !.merged = 1,
                                 !.risWeight = ris.weight, !.out = out,
                                 !.divZero = DivZero_Temporal(currentReservoir,
                                     currentContext.valid, prevReservoir, prevContext.valid,
                                     cfg.maxHistoryLength, in)]
    /\ Advance("temporal")
    /\ UNCHANGED <<frameIndex, cfg, prevReservoirs, prevResEvalContext, unblockedRay>>

\* head of the iteration loop of ReSTIRGDI::spatialResampling: leave the loop, or swap
\* the reservoir and context buffers and dispatch the next iteration
PixSpatialLoop ==
    /\ stage = "spatialLoop"
    /\ IF cfg.useSpatialResampling /\ spatialIter < cfg.spatialIterations
       THEN /\ reservoirs' = prevReservoirs
            /\ prevReservoirs' = reservoirs
            /\ resEvalContext' = prevResEvalContext
            /\ prevResEvalContext' = resEvalContext
            /\ written' = [written EXCEPT
                   !.reservoirs = written.prevReservoirs,
                   !.prevReservoirs = written.reservoirs,
                   !.resEvalContext = written.prevResEvalContext,
                   !.prevResEvalContext = written.resEvalContext]
            /\ stage' = "spatial"
       ELSE /\ stage' = "final"
            /\ UNCHANGED <<reservoirs, prevReservoirs, resEvalContext, prevResEvalContext,
                           written>>
    /\ UNCHANGED <<frameIndex, thread, spatialIter, cfg, unblockedRay, last>>

\* the neighbours that pass the bounds and similarity tests, with what their merge draws
NeighborSeqs ==
    UNION { { ns \in [1..n -> [pixel : Pixels, candRaw : PdfValues, canonRaw : PdfValues,
                                u : UValues]] : n > 0 => ns[1].u = Half } :
            n \in 0..cfg.spatialNeighborCount }

RECURSIVE AllEmpty(_)
AllEmpty(neigh) ==
    neigh = <<>> \/ (IsEmptyReservoir(Head(neigh).res) /\ AllEmpty(Tail(neigh)))

\* one thread of SpatialResampling::process
PixSpatialThread ==
    /\ stage = "spatial"
    /\ \E ns \in { n \in NeighborSeqs : \A i \in DOMAIN n :
                      /\ n[i].candRaw \in RawValues(prevResEvalContext[thread].valid,
                                                    prevReservoirs[n[i].pixel].lightSample)
                      /\ n[i].canonRaw \in RawValues(prevResEvalContext[n[i].pixel].valid,
                                                     prevReservoirs[thread].lightSample) },
             uFinal \in UValues :
          \E neigh \in { [i \in 1..Len(ns) |->
                           [res |-> prevReservoirs[ns[i].pixel],
                            valid |-> prevResEvalContext[ns[i].pixel].valid,
                            candRaw |-> ns[i].candRaw, canonRaw |-> ns[i].canonRaw,
                            u |-> ns[i].u]] } :
          \E ris \in { SpatialRis(prevReservoirs[thread], prevResEvalContext[thread].valid,
                                  cfg.useMFactor, neigh, uFinal) } :
          \E out \in { toReservoir(ris) } :
          LET currentReservoir == prevReservoirs[thread]
              currEvalContext == prevResEvalContext[thread]
          IN /\ reservoirs' = [reservoirs EXCEPT ![thread] = out]
             /\ resEvalContext' = [resEvalContext EXCEPT ![thread] = currEvalContext]
             /\ written' = [written EXCEPT !.reservoirs = @ \cup {thread},
                                           !.resEvalContext = @ \cup {thread}]
             /\ last' = [NoLast EXCEPT !.stage = "spatial", !.pixel = thread,
                            !.wrote = TRUE, !.canonical = currentReservoir,
                            !.readStale =
                                \/ thread \notin written.prevReservoirs
                                \/ thread \notin written.prevResEvalContext
                                \/ thread \notin written.pixelCenterEvalContext
                                \/ \E i \in DOMAIN ns :
                                      \/ ns[i].pixel \notin written.pixelCenterEvalContext
                                      \/ ns[i].pixel \notin written.prevReservoirs
                                      \/ ns[i].pixel \notin written.prevResEvalContext,
                            !.candidatesEmpty = AllEmpty(neigh),
                            !.merged = Len(neigh),
                            !.risWeight = ris.weight, !.out = out,
                            !.divZero = DivZero_Spatial(currentReservoir,
                                            currEvalContext.valid, neigh)]
    /\ Advance("spatial")
    /\ UNCHANGED <<frameIndex, cfg, prevReservoirs, prevResEvalContext, unblockedRay>>

\* EvaluateFinalSamples::evalPathIncidentRadiance; lightRaw is geomFactor * emission of
\* the light sample, visible the outcome of the visibility ray when one is traced
evalPathIncidentRadiance(reservoir, emission, kUseVisibility, visible, lightRaw) ==
    IF reservoir.pathSample = 1 THEN FMul(reservoir.weight, emission)
    ELSE IF reservoir.pathSample = 2 /\ isValid(reservoir.lightSample)
         THEN (IF kUseVisibility /\ ~visible THEN Zero
               ELSE FMul(reservoir.weight, lightRaw))
    ELSE Zero

\* one thread of EvaluateFinalSamples::process (one pass)
PixFinalThread ==
    /\ stage = "final"
    /\ \E visible \in BOOLEAN, lightRaw \in PdfValues :
          LET reservoir == reservoirs[thread]
              evalContext == resEvalContext[thread]
              traced == /\ cfg.useFinalVisibility /\ reservoir.pathSample = 2
                        /\ isValid(reservoir.lightSample)
          IN /\ resEvalContext' = [resEvalContext EXCEPT ![thread] = evalContext]
             /\ written' = [written EXCEPT !.resEvalContext = @ \cup {thread}]
             /\ unblockedRay' = (unblockedRay \/ (traced /\ visible))
             /\ last' = [NoLast EXCEPT !.stage = "final", !.pixel = thread,
                            !.out = reservoir, !.surfaceValid = evalContext.valid,
                            !.readStale = \/ thread \notin written.reservoirs
                                          \/ thread \notin written.resEvalContext,
                            !.Li = evalPathIncidentRadiance(reservoir, evalContext.emissionLum,
                                       cfg.useFinalVisibility, visible, lightRaw)]
    /\ Advance("final")
    /\ UNCHANGED <<frameIndex, cfg, reservoirs, prevReservoirs, prevResEvalContext>>

\* ReSTIRGDI::endFrame: the current buffers become the previous-frame buffers
PixEndFrame ==
    /\ stage = "endFrame"
    /\ reservoirs' = prevReservoirs
    /\ prevReservoirs' = reservoirs
    /\ resEvalContext' = prevResEvalContext
    /\ prevResEvalContext' = resEvalContext
    /\ written' = [reservoirs |-> written.prevReservoirs,
                   prevReservoirs |-> written.reservoirs,
                   resEvalContext |-> written.prevResEvalContext,
                   prevResEvalContext |-> written.resEvalContext,
                   pixelCenterEvalContext |-> written.prevPixelCenterEvalContext,
                   prevPixelCenterEvalContext |-> written.pixelCenterEvalContext]
    /\ frameIndex' = frameIndex + 1
    /\ stage' = "idle"
    /\ last' = NoLast
    /\ UNCHANGED <<thread, spatialIter, cfg, unblockedRay>>


(***************************************************************************)
(* Host side (ReSTIRGDI.cpp): options, program recompilation, the buffers  *)
(* of mDirectLightingResources and the compute dispatches of one frame.    *)
(***************************************************************************)
VARIABLES mOptions, mRecompile, mResetTemporalReservoirs, mFrameDim, frameCount, pc,
          resources, dispatches, prevAtStart, recompiled, lastWritten

hostVars == <<mOptions, mRecompile, mResetTemporalReservoirs, mFrameDim, frameCount, pc,
              resources, dispatches, prevAtStart, recompiled, lastWritten>>

MaxHostFrames == 3

MaxDim == 2

MaxPasses == 2

MaxSpatialIterations == 2

LightTileCount == 2

LightTileSize == 2


\* the fields of Options that decide which dispatches run
OptionsSet ==
    [useTemporalResampling : BOOLEAN, useSpatialResampling : BOOLEAN,
     spatialIterations : 0..MaxSpatialIterations, numReSTIRPasses : 1..MaxPasses,
     resampleEmissionMode : {"None", "OneMergedReservoir"}]

\* the pointers of a ResamplingResources, in the order prepareResources visits them
ResourceNames == <<"pReservoirs", "pPrevReservoirs", "pResEvalContext", "pPrevResEvalContext",
                   "pPixelCenterEvalContext", "pPrevPixelCenterEvalContext">>

\* one more id than pointers: a buffer is created while the one it replaces is alive
BufferIds == 0..Len(ResourceNames)

\* a null ref<Buffer>
Null == [id |-> Len(ResourceNames) + 5, count |-> 0]

UsedIds(r) == { r[n].id : n \in { m \in DOMAIN r : r[m] # Null } }

\* createStructuredBuffer returns a buffer distinct from every live one
FreshId(r) == CHOOSE i \in BufferIds : i \notin UsedIds(r) /\ \A j \in 0..(i - 1) : j \in UsedIds(r)

\* element count prepareResources asks of a buffer
ElementCount(name, dim, numPasses) ==
    IF name \in {"pPixelCenterEvalContext", "pPrevPixelCenterEvalContext"}
    THEN dim ELSE dim * numPasses

\* initResamplingResources: a buffer is created when missing or too small
RECURSIVE initResamplingResources(_, _, _, _)
initResamplingResources(r, names, dim, numPasses) ==
    IF names = <<>> THEN r
    ELSE LET n == Head(names)
             count == ElementCount(n, dim, numPasses)
             r1 == IF r[n] = Null \/ r[n].count < count
                   THEN [r EXCEPT ![n] = [id |-> FreshId(r), count |-> count]]
                   ELSE r
         IN initResamplingResources(r1, Tail(names), dim, numPasses)

\* std::swap of two members of the resources
SwapResources(r, a, b) == [r EXCEPT ![a] = r[b], ![b] = r[a]]

\* no frame has run: no buffer holds the output of a resampling stage
NoOutput == [stage |-> "none", reservoirs |-> Null.id, resEvalContext |-> Null.id, hitCleared |-> FALSE]

\* the member initialiser of mRecompile
InitialRecompile == TRUE

HostIdle ==
    /\ mOptions \in OptionsSet
    /\ mRecompile = InitialRecompile
    /\ mResetTemporalReservoirs \in BOOLEAN
    /\ mFrameDim = 0
    /\ frameCount = 0
    /\ pc = "idle"
    /\ resources = [n \in { ResourceNames[i] : i \in DOMAIN ResourceNames } |-> Null]
    /\ dispatches = <<>>
    /\ prevAtStart = {}
    /\ recompiled = FALSE
    /\ lastWritten = NoOutput

\* ReSTIRGDI::setOptions
setOptions(options) ==
    /\ pc = "idle"
    /\ IF options # mOptions
       THEN mOptions' = options /\ mRecompile' = TRUE
       ELSE UNCHANGED <<mOptions, mRecompile>>
    /\ UNCHANGED <<mResetTemporalReservoirs, mFrameDim, frameCount, pc, resources,
                   dispatches, prevAtStart, recompiled>>

\* ReSTIRGDI::renderUI: the widgets of numReSTIRPasses and spatialIterations only
\* report dirty, the others request a recompile
renderUI(options) ==
    /\ pc = "idle"
    /\ mOptions' = options
    /\ mRecompile' = (mRecompile
                       \/ options.useTemporalResampling # mOptions.useTemporalResampling
                       \/ options.useSpatialResampling # mOptions.useSpatialResampling
                       \/ options.resampleEmissionMode # mOptions.resampleEmissionMode)
    /\ UNCHANGED <<mResetTemporalReservoirs, mFrameDim, frameCount, pc, resources,
                   dispatches, prevAtStart, recompiled>>

\* the buffers that hold the previous frame's reservoirs and contexts
PrevBuffers(r) == { r["pPrevReservoirs"].id, r["pPrevResEvalContext"].id,
                    r["pPrevPixelCenterEvalContext"].id }

\* the buffer id is still held by the pointer that held it: a buffer that
\* prepareResources replaces is released, and what it held is gone
Survives(r, r1, id) == \E n \in DOMAIN r : r[n].id = id /\ r[n] # Null /\ r1[n] = r[n]

\* ReSTIRGDI::beginFrame with prepareResources
beginFrame(frameDim) ==
    /\ pc = "idle"
    /\ frameCount < MaxHostFrames
    /\ mFrameDim' = frameDim
    /\ mOptions' = [mOptions EXCEPT !.resampleEmissionMode = "None"]
    /\ resources' = initResamplingResources(resources, ResourceNames, frameDim,
                                            mOptions.numReSTIRPasses)
    /\ frameCount' = frameCount + 1
    /\ dispatches' = <<>>
    /\ prevAtStart' = PrevBuffers(resources')
    /\ recompiled' = FALSE
    /\ lastWritten' = [lastWritten EXCEPT
                         !.reservoirs = IF Survives(resources, resources', @) THEN @ ELSE Null.id,
                         !.resEvalContext = IF Survives(resources, resources', @) THEN @ ELSE Null.id]
    /\ pc' = "prepareLighting"
    /\ UNCHANGED <<mRecompile, mResetTemporalReservoirs>>

\* buffers outside ResamplingResources
LightTileDataId == Len(ResourceNames) + 1

SurfaceDataId == Len(ResourceNames) + 2

FinalSamplesId == Len(ResourceNames) + 3

FinalPrimaryHitsId == Len(ResourceNames) + 4

NotBound == Len(ResourceNames) + 5

\* getPixelIndex(frameDim, pixel, passIdx)
getPixelIndex(frameDim, pixel, passIdx) == frameDim * passIdx + pixel

\* one execute() of a compute pass with the buffers bound to it
Dispatch(stageName, passIdx, iteration, reservoirsBuf, prevReservoirsBuf, resEvalContextBuf, prevResEvalContextBuf, pixelCenterBuf) ==
    [stage |-> stageName, pass |-> passIdx, iteration |-> iteration,
     frameDim |-> mFrameDim, numPasses |-> mOptions.numReSTIRPasses,
     reservoirs |-> reservoirsBuf, prevReservoirs |-> prevReservoirsBuf,
     resEvalContext |-> resEvalContextBuf, prevResEvalContext |-> prevResEvalContextBuf,
     pixelCenterEvalContext |-> pixelCenterBuf]

\* the threads of a dispatch; the grid is rounded up, so one thread lies outside
Threads(d) ==
    IF d.stage = "generateLightTiles"
    THEN (0..LightTileCount) \X (0..LightTileSize)
    ELSE 0..d.frameDim

InRange(d, t) ==
    IF d.stage = "generateLightTiles"
    THEN t[1] < LightTileCount /\ t[2] < LightTileSize
    ELSE t < d.frameDim

\* the buffer entries thread t of dispatch d can write (the initial pass writes the
\* pixel-centre context on a valid surface only)
Writes(d, t) ==
    IF ~InRange(d, t) THEN {}
    ELSE IF d.stage = "generateLightTiles"
    THEN { <<LightTileDataId, t[1] * LightTileSize + t[2]>> }
    ELSE IF d.stage = "initialResampling"
    THEN { <<d.reservoirs, getPixelIndex(d.frameDim, t, d.pass)>>,
           <<d.resEvalContext, getPixelIndex(d.frameDim, t, d.pass)>>,
           <<d.pixelCenterEvalContext, t>> }
    ELSE IF d.stage \in {"temporalResampling", "spatialResampling"}
    THEN { <<d.reservoirs, getPixelIndex(d.frameDim, t, d.pass)>>,
           <<d.resEvalContext, getPixelIndex(d.frameDim, t, d.pass)>> }
    ELSE UNION { { <<FinalSamplesId, getPixelIndex(d.frameDim, t, i)>>,
                   <<d.resEvalContext, getPixelIndex(d.frameDim, t, i)>>,
                   <<FinalPrimaryHitsId, getPixelIndex(d.frameDim, t, i)>> } :
                 i \in 0..(d.numPasses - 1) }

\* the buffer entries thread t of dispatch d may read (over all its inputs)
Reads(d, t) ==
    IF ~InRange(d, t) THEN {}
    ELSE IF d.stage = "generateLightTiles" THEN {}
    ELSE IF d.stage = "initialResampling"
    THEN { <<SurfaceDataId, t>> }
         \cup { <<LightTileDataId, i>> : i \in 0..(LightTileCount * LightTileSize - 1) }
    ELSE IF d.stage = "temporalResampling"
    THEN { <<d.reservoirs, getPixelIndex(d.frameDim, t, d.pass)>>,
           <<d.resEvalContext, getPixelIndex(d.frameDim, t, d.pass)>> }
         \cup UNION { { <<d.prevReservoirs, getPixelIndex(d.frameDim, q, d.pass)>>,
                        <<d.prevResEvalContext, getPixelIndex(d.frameDim, q, d.pass)>> } :
                      q \in 0..(d.frameDim - 1) }
    ELSE IF d.stage = "spatialResampling"
    THEN UNION { { <<d.prevReservoirs, getPixelIndex(d.frameDim, q, d.pass)>>,
                   <<d.prevResEvalContext, getPixelIndex(d.frameDim, q, d.pass)>>,
                   <<d.pixelCenterEvalContext, q>> } :
                 q \in 0..(d.frameDim - 1) }
    ELSE UNION { { <<d.reservoirs, getPixelIndex(d.frameDim, t, i)>>,
                   <<d.resEvalContext, getPixelIndex(d.frameDim, t, i)>> } :
                 i \in 0..(d.numPasses - 1) }

\* ReSTIRGDI::prepareLighting: scene updates and rebuilt alias tables request a recompile
prepareLighting ==
    /\ pc = "prepareLighting"
    /\ \E lightingChanged \in BOOLEAN : mRecompile' = (mRecompile \/ lightingChanged)
    /\ pc' = "updatePrograms"
    /\ UNCHANGED <<mOptions, mResetTemporalReservoirs, mFrameDim, frameCount, resources,
                   dispatches, prevAtStart, recompiled>>

\* ReSTIRGDI::updatePrograms; getLightsDefines() may throw, which ends the run
updatePrograms ==
    /\ pc = "updatePrograms"
    /\ IF ~mRecompile
       THEN /\ pc' = "updateEmissiveTriangles"
            /\ UNCHANGED <<mRecompile, mResetTemporalReservoirs, recompiled>>
       ELSE \/ /\ mRecompile' = FALSE
               /\ mResetTemporalReservoirs' = TRUE
               /\ recompiled' = TRUE
               /\ pc' = "updateEmissiveTriangles"
            \/ /\ pc' = "terminated"
               /\ UNCHANGED <<mRecompile, mResetTemporalReservoirs, recompiled>>
    /\ UNCHANGED <<mOptions, mFrameDim, frameCount, resources, dispatches, prevAtStart>>

\* ReSTIRGDI::updateEmissiveTriangles: dispatched when local emissive triangles exist
updateEmissiveTriangles ==
    /\ pc = "updateEmissiveTriangles"
    /\ \E haveTriangles \in BOOLEAN :
          dispatches' = IF haveTriangles
                        THEN Append(dispatches, Dispatch("updateEmissiveTriangles", 0, 0,
                                 NotBound, NotBound, NotBound, NotBound, NotBound))
                        ELSE dispatches
    /\ pc' = "generateLightTiles"
    /\ UNCHANGED <<mOptions, mRecompile, mResetTemporalReservoirs, mFrameDim, frameCount,
                   resources, prevAtStart, recompiled>>

\* ReSTIRGDI::generateLightTiles
generateLightTiles ==
    /\ pc = "generateLightTiles"
    /\ dispatches' = Append(dispatches, Dispatch("generateLightTiles", 0, 0,
                         NotBound, NotBound, NotBound, NotBound, NotBound))
    /\ pc' = "initialResampling"
    /\ UNCHANGED <<mOptions, mRecompile, mResetTemporalReservoirs, mFrameDim, frameCount,
                   resources, prevAtStart, recompiled>>

\* variant: the loop over the passes stops after the first pass
InitialDispatches_firstPassOnly(r) ==
    <<Dispatch("initialResampling", 0, 0, r["pReservoirs"].id, NotBound,
               r["pResEvalContext"].id, NotBound, r["pPixelCenterEvalContext"].id)>>

\* the dispatches of the loop over numReSTIRPasses in initialResampling
InitialDispatches(r) ==
    [i \in 1..mOptions.numReSTIRPasses |->
        Dispatch("initialResampling", i - 1, 0, r["pReservoirs"].id, NotBound,
                 r["pResEvalContext"].id, NotBound, r["pPixelCenterEvalContext"].id)]

\* ReSTIRGDI::initialResampling
initialResampling ==
    /\ pc = "initialResampling"
    /\ dispatches' = dispatches \o InitialDispatches(resources)
    /\ pc' = "temporalResampling"
    /\ UNCHANGED <<mOptions, mRecompile, mResetTemporalReservoirs, mFrameDim, frameCount,
                   resources, prevAtStart, recompiled>>

\* variant: the temporal pass bound with its output and history buffers exchanged
TemporalDispatches_intoPrev(r) ==
    [i \in 1..mOptions.numReSTIRPasses |->
        Dispatch("temporalResampling", i - 1, 0, r["pPrevReservoirs"].id, r["pReservoirs"].id,
                 r["pPrevResEvalContext"].id, r["pResEvalContext"].id, NotBound)]

\* the dispatches of the loop over numReSTIRPasses in temporalResampling
TemporalDispatches(r) ==
    [i \in 1..mOptions.numReSTIRPasses |->
        Dispatch("temporalResampling", i - 1, 0, r["pReservoirs"].id, r["pPrevReservoirs"].id,
                 r["pResEvalContext"].id, r["pPrevResEvalContext"].id, NotBound)]

\* variant: the reset request is honoured but never cleared
temporalResampling_keepsReset ==
    /\ pc = "temporalResampling"
    /\ dispatches' = IF ~mResetTemporalReservoirs /\ mOptions.useTemporalResampling
                     THEN dispatches \o TemporalDispatches(resources)
                     ELSE dispatches
    /\ pc' = "spatialResampling"
    /\ UNCHANGED <<mOptions, mRecompile, mResetTemporalReservoirs, mFrameDim, frameCount,
                   resources, prevAtStart, recompiled>>

\* ReSTIRGDI::temporalResampling
temporalResampling ==
    /\ pc = "temporalResampling"
    /\ IF mResetTemporalReservoirs
       THEN /\ mResetTemporalReservoirs' = FALSE
            /\ UNCHANGED dispatches
       ELSE /\ UNCHANGED mResetTemporalReservoirs
            /\ dispatches' = IF mOptions.useTemporalResampling
                             THEN dispatches \o TemporalDispatches(resources)
                             ELSE dispatches
    /\ pc' = "spatialResampling"
    /\ UNCHANGED <<mOptions, mRecompile, mFrameDim, frameCount, resources, prevAtStart,
                   recompiled>>

\* variant: spatial reuse in place, neighbours read from the buffer being written
SpatialDispatches_inPlace(r, iteration) ==
    [i \in 1..mOptions.numReSTIRPasses |->
        Dispatch("spatialResampling", i - 1, iteration, r["pReservoirs"].id,
                 r["pReservoirs"].id, r["pResEvalContext"].id,
                 r["pResEvalContext"].id, r["pPixelCenterEvalContext"].id)]

\* the dispatches of one spatial iteration, issued after its swap
SpatialDispatches(r, iteration) ==
    [i \in 1..mOptions.numReSTIRPasses |->
        Dispatch("spatialResampling", i - 1, iteration, r["pReservoirs"].id,
                 r["pPrevReservoirs"].id, r["pResEvalContext"].id,
                 r["pPrevResEvalContext"].id, r["pPixelCenterEvalContext"].id)]

\* one iteration of the loop of spatialResampling: swap, rebind
SpatialSwap(r) ==
    SwapResources(SwapResources(r, "pReservoirs", "pPrevReservoirs"),
                  "pResEvalContext", "pPrevResEvalContext")

\* the loop over spatialIterations: <<resources, dispatches>> after iterations from..
RECURSIVE SpatialLoop(_, _, _)
SpatialLoop(r, ds, iteration) ==
    IF iteration >= mOptions.spatialIterations THEN <<r, ds>>
    ELSE LET r1 == SpatialSwap(r)
         IN SpatialLoop(r1, ds \o SpatialDispatches(r1, iteration), iteration + 1)

\* ReSTIRGDI::spatialResampling
spatialResampling ==
    /\ pc = "spatialResampling"
    /\ IF ~mOptions.useSpatialResampling
       THEN UNCHANGED <<resources, dispatches>>
       ELSE /\ resources' = SpatialLoop(resources, dispatches, 0)[1]
            /\ dispatches' = SpatialLoop(resources, dispatches, 0)[2]
    /\ pc' = "evaluateFinalSamples"
    /\ UNCHANGED <<mOptions, mRecompile, mResetTemporalReservoirs, mFrameDim, frameCount,
                   prevAtStart, recompiled>>

\* the last dispatch of a resampling stage among ds
RECURSIVE LastResampling(_)
LastResampling(ds) ==
    IF ds[Len(ds)].stage \in {"initialResampling", "temporalResampling", "spatialResampling"}
    THEN ds[Len(ds)]
    ELSE LastResampling(SubSeq(ds, 1, Len(ds) - 1))

\* ReSTIRGDI::evaluateFinalSamples; the shader writes every context back, with
\* evalContext.hit cleared where the reservoir has M = 0 (hitCleared: there is such a
\* reservoir on a surface that was hit)
evaluateFinalSamples ==
    /\ pc = "evaluateFinalSamples"
    /\ dispatches' = Append(dispatches, Dispatch("evaluateFinalSamples", 0, 0,
                         resources["pReservoirs"].id, NotBound,
                         resources["pResEvalContext"].id, NotBound, NotBound))
    /\ \E hitCleared \in BOOLEAN :
          lastWritten' = [stage |-> LastResampling(dispatches).stage,
                          reservoirs |-> LastResampling(dispatches).reservoirs,
                          resEvalContext |-> LastResampling(dispatches).resEvalContext,
                          hitCleared |-> hitCleared]
    /\ pc' = "endFrame"
    /\ UNCHANGED <<mOptions, mRecompile, mResetTemporalReservoirs, mFrameDim, frameCount,
                   resources, prevAtStart, recompiled>>

\* ReSTIRGDI::endFrame
endFrame ==
    /\ pc = "endFrame"
    /\ resources' = SwapResources(SwapResources(SwapResources(resources,
                        "pReservoirs", "pPrevReservoirs"),
                        "pResEvalContext", "pPrevResEvalContext"),
                        "pPixelCenterEvalContext", "pPrevPixelCenterEvalContext")
    /\ pc' = "idle"
    /\ dispatches' = <<>>
    /\ prevAtStart' = {}
    /\ recompiled' = FALSE
    /\ UNCHANGED <<mOptions, mRecompile, mResetTemporalReservoirs, mFrameDim, frameCount>>

\* the pixel pipeline at rest
(***************************************************************************)
(* Unit level: RisState finalisation, the four pairwise-MIS weights and    *)
(* the temporal and spatial merges applied to inputs drawn from bounded    *)
(* sets.                                                                   *)
(***************************************************************************)
VARIABLES uOp, uIn, uOut

unitVars == <<uOp, uIn, uOut>>

LargeM == 1000

DefaultHistoryLength == 20

\* RIS states as a stage may hold them before it computes the weight
RisStates ==
    [lightSample : LightIds \cup {Invalid}, pathSample : {1, 2},
     weightSum : {Zero, One, Two, PosInf, NaN}, M : {Zero, One, Two}, weight : {Zero},
     targetPdf : {Zero, Half, One, PosInf, NaN}, canonicalWeight : {Zero}]

\* confidence weights and target values handed to the pairwise-MIS weights
MisMValues == {Zero, One, Two}

MisPValues == {Zero, Half, One, Two}

HistoryMs == {0, 1, 2, DefaultHistoryLength, LargeM}

CurrentMs == {0, 1, 2}

HistoryLengths == {0, 1, MaxHistory, DefaultHistoryLength}

UnitIdle ==
    /\ uOp = "none"
    /\ uIn = [none |-> TRUE]
    /\ uOut = [none |-> TRUE]

\* risState.weight = ...; risState.toReservoir() as at the end of every stage
UnitToReservoir ==
    /\ uOp = "none"
    /\ \E state \in RisStates :
        /\ uOp' = "toReservoir"
        /\ uIn' = state
        /\ uOut' = [weight |-> FinalizeWeight(state).weight,
                    reservoir |-> toReservoir(FinalizeWeight(state))]

\* the four pairwise-MIS weights on mSum = mCanonical + mCandidate + rest
UnitPairwiseMIS ==
    /\ uOp = "none"
    /\ \E mCandidate \in MisMValues, mCanonical \in MisMValues, rest \in MisMValues,
       p_i \in MisPValues, p_c \in MisPValues :
        LET mSum == FAdd(FAdd(mCanonical, mCandidate), rest) IN
        /\ uOp' = "pairwiseMIS"
        /\ uIn' = [mSum |-> mSum, mCandidate |-> mCandidate, pi |-> p_i,
                   mCanonical |-> mCanonical, pc |-> p_c]
        /\ uOut' = [nonDefensiveNonCanonical |->
                        pairwiseMIS_nonDefensiveNonCanonical(mSum, mCandidate, p_i, mCanonical, p_c),
                    nonDefensiveCanonical |->
                        pairwiseMIS_nonDefensiveCanonical(mSum, mCandidate, p_i, mCanonical, p_c),
                    defensiveNonCanonical |->
                        pairwiseMIS_defensiveNonCanonical(mSum, mCandidate, p_i, mCanonical, p_c),
                    defensiveCanonical |->
                        pairwiseMIS_defensiveCanonical(mSum, mCandidate, p_i, mCanonical, p_c)]

\* TemporalResampling::process on a current and a history reservoir holding a light sample
UnitTemporal ==
    /\ uOp = "none"
    /\ \E prevM \in HistoryMs, currentM \in CurrentMs, kMaxHistoryLength \in HistoryLengths,
       useMFactor \in BOOLEAN, in \in TemporalInputs, prevTargetPdf \in {One, Two} :
        LET currentReservoir == [lightSample |-> "L1", M |-> currentM, weight |-> One,
                                 pathSample |-> 2, targetPdf |-> One]
            prevReservoir == [lightSample |-> "L1", M |-> prevM, weight |-> One,
                              pathSample |-> 2, targetPdf |-> prevTargetPdf]
        IN \E ris \in { TemporalRis(currentReservoir, TRUE, prevReservoir, TRUE,
                                     kMaxHistoryLength, useMFactor, in) } :
           /\ uOp' = "temporal"
           /\ uIn' = [prevM |-> prevM, currentM |-> currentM,
                      kMaxHistoryLength |-> kMaxHistoryLength, useMFactor |-> useMFactor,
                      canonical |-> currentReservoir, prevReservoir |-> prevReservoir,
                      in |-> in]
           /\ uOut' = [reusedM |-> ClampedHistoryM(prevM, currentM, kMaxHistoryLength),
                       risM |-> ris.M, reservoir |-> toReservoir(ris)]

\* the neighbours a spatial pass merges: reservoirs holding a light sample on a valid
\* surface, with the raw target value of their sample at the canonical surface
UnitNeighbors ==
    [res : [lightSample : {"L1"}, M : CurrentMs, weight : {One}, pathSample : {2},
            targetPdf : {One, Two}],
     valid : {TRUE}, candRaw : PdfValues, canonRaw : {One}, u : {Half}]

MaxUnitNeighbors == 2

\* source pdfs, MIS weights and target values of an initial candidate
CandidateValues == {Zero, Half, One}

\* one call of streamingInitialResampleMIS, for a light sample and for a path sample
UnitInitialResample ==
    /\ uOp = "none"
    /\ \E state \in RisStates, targetPdf \in CandidateValues, sourcePdf \in CandidateValues,
          misWeight \in CandidateValues, u \in UValues, pathSample \in {1, 2} :
        /\ uOp' = "initialResample"
        /\ uIn' = [state |-> state, lightSample |-> "L1", pathSample |-> pathSample,
                   targetPdf |-> targetPdf, sourcePdf |-> sourcePdf,
                   misWeight |-> misWeight, u |-> u]
        /\ uOut' = [light |-> streamingInitialResampleMIS(state, "L1", targetPdf,
                                  sourcePdf, misWeight, u),
                    path |-> streamingInitialResamplePath(state, pathSample, targetPdf,
                                  sourcePdf, misWeight, u)]

\* the M-factor of a merge: a, b the target values of the candidate's sample at its own
\* and at the canonical point, c, d those of the canonical sample at the candidate's and
\* at its own point
UnitMFactor ==
    /\ uOp = "none"
    /\ \E a \in MisPValues, b \in MisPValues, c \in MisPValues, d \in MisPValues :
        /\ uOp' = "mFactor"
        /\ uIn' = [a |-> a, b |-> b, c |-> c, d |-> d]
        /\ uOut' = [candidate |-> mFactor(a, b), canonical |-> mFactor(c, d),
                    mScaler |-> mScaler(a, b, c, d)]

\* SpatialResampling::process on a canonical reservoir and its accepted neighbours
UnitSpatial ==
    /\ uOp = "none"
    /\ \E currentM \in CurrentMs \ {0}, useMFactor \in BOOLEAN, uFinal \in UValues,
          n \in 1..MaxUnitNeighbors :
       \E neigh \in [1..n -> UnitNeighbors] :
        LET currentReservoir == [lightSample |-> "L1", M |-> currentM, weight |-> One,
                                 pathSample |-> 2, targetPdf |-> One]
        IN /\ uOp' = "spatial"
           /\ uIn' = [canonical |-> currentReservoir, useMFactor |-> useMFactor,
                      neigh |-> neigh]
           /\ uOut' = [reservoir |-> toReservoir(SpatialRis(currentReservoir, TRUE,
                                                            useMFactor, neigh, uFinal))]

\* the bit of validNeighborCache that (1 << i) names, for i below the 32 bits of a uint
CacheBit_first(i) == 0

CacheBit(i) == i

\* the neighbour indices whose outcome is drawn freely; the others are accepted
ProbedNeighbors == {0, 1, 2, 31}

NeighborCounts == {0, 1, 2, 3, 32}

\* the M of the reservoir of the i-th neighbour
NeighborM(i) == i % 3

\* the i-th neighbour of a pixel: whether isValidPixel(neighborPixel) holds, whether the
\* normal/depth and hit-type tests let it pass, and the M of its reservoir
NeighborsOf(neighborCount, outside, rejected) ==
    [i \in 0..(neighborCount - 1) |->
        [inFrame |-> i \notin outside, passes |-> i \notin rejected, M |-> NeighborM(i)]]

\* the first loop of SpatialResampling::process from neighbour i on: the confidence
\* weight sum and the cache of the neighbours it counted
RECURSIVE ConfidenceLoop(_, _, _, _)
ConfidenceLoop(i, neighborCount, nb, acc) ==
    IF i >= neighborCount THEN acc
    ELSE IF ~nb[i].inFrame \/ ~nb[i].passes THEN ConfidenceLoop(i + 1, neighborCount, nb, acc)
    ELSE ConfidenceLoop(i + 1, neighborCount, nb,
             [confidenceWeightSum |-> acc.confidenceWeightSum + nb[i].M,
              validNeighborCache |-> acc.validNeighborCache \cup {CacheBit(i)}])

\* the second loop from neighbour i on: the neighbours handed to
\* spatialResamplePointReservoirPairwiseMIS, each with the sum the call receives
RECURSIVE MergeLoop(_, _, _, _, _)
MergeLoop(i, neighborCount, nb, gathered, merged) ==
    IF i >= neighborCount THEN merged
    ELSE IF CacheBit(i) \notin gathered.validNeighborCache
         THEN MergeLoop(i + 1, neighborCount, nb, gathered, merged)
    ELSE IF ~nb[i].inFrame THEN MergeLoop(i + 1, neighborCount, nb, gathered, merged)
    ELSE MergeLoop(i + 1, neighborCount, nb, gathered,
             Append(merged, [neighbor |-> i,
                             confidenceWeightSum |-> gathered.confidenceWeightSum]))

\* the two neighbour loops of SpatialResampling::process for one pixel
UnitSpatialLoops ==
    /\ uOp = "none"
    /\ \E currentM \in CurrentMs, neighborCount \in NeighborCounts :
       \E outside \in SUBSET (ProbedNeighbors \cap 0..(neighborCount - 1)),
          rejected \in SUBSET (ProbedNeighbors \cap 0..(neighborCount - 1)) :
       \E nb \in { NeighborsOf(neighborCount, outside, rejected) } :
       \E gathered \in { ConfidenceLoop(0, neighborCount, nb,
                            [confidenceWeightSum |-> currentM, validNeighborCache |-> {}]) } :
        /\ uOp' = "spatialLoops"
        /\ uIn' = [currentM |-> currentM, neighborCount |-> neighborCount, nb |-> nb]
        /\ uOut' = [confidenceWeightSum |-> gathered.confidenceWeightSum,
                    validNeighborCache |-> gathered.validNeighborCache,
                    merged |-> MergeLoop(0, neighborCount, nb, gathered, <<>>)]

\* EvalContext::isValidNeighbor on numbers: dotN is dot(N, otherNormalDepth.xyz); the
\* depths and the depth threshold are parameters the function does not read
isValidNeighborDepth(dotN, depth, otherDepth, normalThreshold, depthThreshold) ==
    FGe(dotN, normalThreshold)

\* cosines between the two normals, depths and thresholds of a neighbour test
CosineValues == {Zero, Half, One}

DepthValues == {One, Two}

NormalThresholds == {Half, One}

DepthThresholds == {Rat(1, 10), One}

\* the neighbour tests of the first loop of SpatialResampling::process on one neighbour
UnitNeighborTest ==
    /\ uOp = "none"
    /\ \E dotN \in CosineValues, depth \in DepthValues, otherDepth \in DepthValues,
          normalThreshold \in NormalThresholds, depthThreshold \in DepthThresholds,
          rejectNeighborPixelForNormalDepth \in BOOLEAN,
          rejectNeighborPixelForHitType \in BOOLEAN,
          surfaceValid \in BOOLEAN, otherSurfaceValid \in BOOLEAN :
        /\ uOp' = "neighborTest"
        /\ uIn' = [dotN |-> dotN, depth |-> depth, otherDepth |-> otherDepth,
                   normalThreshold |-> normalThreshold, depthThreshold |-> depthThreshold,
                   rejectNeighborPixelForNormalDepth |-> rejectNeighborPixelForNormalDepth,
                   rejectNeighborPixelForHitType |-> rejectNeighborPixelForHitType,
                   surfaceValid |-> surfaceValid, otherSurfaceValid |-> otherSurfaceValid]
        /\ uOut' = [accepted |->
                       /\ ~(rejectNeighborPixelForNormalDepth
                              /\ ~isValidNeighborDepth(dotN, depth, otherDepth,
                                                       normalThreshold, depthThreshold))
                       /\ ~(rejectNeighborPixelForHitType
                              /\ surfaceValid # otherSurfaceValid)]

\* the configurations whose initial pass tests the visibility of the selected sample
VisibilityConfigs == { c \in PixConfigs : CheckVisibility(c) }

\* InitialResampling::process on a valid surface whose selected light sample is found
\* occluded, next to the same thread with the sample found visible
UnitInitialVisibility ==
    /\ uOp = "none"
    /\ \E c \in VisibilityConfigs, oneMergedReservoir \in BOOLEAN, uPath \in UValues :
       \E cands \in CandidateSeqs(c) \ {<<>>} :
       \E selected \in { InitialRis(cands, c.initialLightSampleCount,
                             c.initialBRDFSampleCount, oneMergedReservoir, Zero, uPath,
                             FALSE, FALSE) } :
        /\ uOp' = "initialVisibility"
        /\ uIn' = [cands |-> cands, oneMergedReservoir |-> oneMergedReservoir,
                   tested |-> isValid(selected.lightSample) /\ selected.pathSample = 2,
                   selected |-> selected.lightSample]
        /\ uOut' = [occluded |-> InitialProcess(TRUE, cands, c.initialLightSampleCount,
                                     c.initialBRDFSampleCount, oneMergedReservoir, Zero,
                                     uPath, TRUE, TRUE),
                    visible |-> InitialProcess(TRUE, cands, c.initialLightSampleCount,
                                    c.initialBRDFSampleCount, oneMergedReservoir, Zero,
                                    uPath, TRUE, FALSE)]

\* largest light tile size and light tile count of the tile-slot computation
MaxTileSize == 8

MaxTileCount == 2

\* the draws sampleNext1D(sg) of the tile and offset selection; 1 stands for a draw so
\* close to 1 that the float product with the count rounds up to the count
TileDraws == {Zero, Half, Rat(7, 8), One}

UintMin(a, b) == IF a < b THEN a ELSE b

\* min(uint(sampleNext1D(tileSg) * kLightTileCount), kLightTileCount - 1)
TileIndexOf(u, kLightTileCount) ==
    UintMin(ToUint(FMul(u, FromInt(kLightTileCount))), kLightTileCount - 1)

\* stride = (kLightTileSize + kInitialLightSampleCount - 1) / kInitialLightSampleCount
StrideOf(kLightTileSize, kInitialLightSampleCount) ==
    (kLightTileSize + kInitialLightSampleCount - 1) \div kInitialLightSampleCount

\* the light-tile slots the candidate loop of InitialResampling::process reads
LightTileSlots(uTile, uOffset, kLightTileCount, kLightTileSize, kInitialLightSampleCount) ==
    LET tileIndex == TileIndexOf(uTile, kLightTileCount)
        lightTileOffset == tileIndex * kLightTileSize
        stride == StrideOf(kLightTileSize, kInitialLightSampleCount)
        offset == UintMin(ToUint(FMul(uOffset, FromInt(stride))), stride - 1)
    IN [tileIndex |-> tileIndex,
        index |-> [i \in 0..(kInitialLightSampleCount - 1) |->
                      lightTileOffset + ((offset + i * stride) % kLightTileSize)]]

\* reservoirs as a stage output of an earlier pass or frame may hold them: either tag,
\* with or without a light sample
TaggedReservoirs ==
    [lightSample : LightIds \cup {Invalid}, M : CurrentMs, weight : {Zero, One},
     pathSample : {1, 2}, targetPdf : {Zero, One}]

\* TemporalResampling::process and SpatialResampling::process (one accepted neighbour) on
\* a pixel's reservoir and a reservoir of the history or of a neighbour, on valid surfaces
UnitPathSample ==
    /\ uOp = "none"
    /\ \E resamplingStage \in {"temporal", "spatial"}, currentReservoir \in TaggedReservoirs,
          candidateReservoir \in TaggedReservoirs, useMFactor \in BOOLEAN,
          in \in TemporalInputs :
        \E ris \in { IF resamplingStage = "temporal"
                     THEN TemporalRis(currentReservoir, TRUE, candidateReservoir, TRUE,
                                      DefaultHistoryLength, useMFactor, in)
                     ELSE SpatialRis(currentReservoir, TRUE, useMFactor,
                                     <<[res |-> candidateReservoir, valid |-> TRUE,
                                        candRaw |-> in.candRaw, canonRaw |-> in.canonRaw,
                                        u |-> in.u1]>>, in.u2) } :
           /\ uOp' = "pathSample"
           /\ uIn' = [resamplingStage |-> resamplingStage,
                      currentReservoir |-> currentReservoir,
                      candidateReservoir |-> candidateReservoir,
                      useMFactor |-> useMFactor, in |-> in]
           /\ uOut' = [risWeight |-> ris.weight, reservoir |-> toReservoir(ris)]

\* the tile and slot selection of one pixel of InitialResampling::process
UnitLightTileSlots ==
    /\ uOp = "none"
    /\ \E kLightTileCount \in 1..MaxTileCount, kLightTileSize \in 1..MaxTileSize,
          uTile \in TileDraws, uOffset \in TileDraws :
       \E kInitialLightSampleCount \in 1..kLightTileSize :
        /\ uOp' = "lightTileSlots"
        /\ uIn' = [kLightTileCount |-> kLightTileCount, kLightTileSize |-> kLightTileSize,
                   kInitialLightSampleCount |-> kInitialLightSampleCount,
                   uTile |-> uTile, uOffset |-> uOffset]
        /\ uOut' = LightTileSlots(uTile, uOffset, kLightTileCount, kLightTileSize,
                                  kInitialLightSampleCount)

(***************************************************************************)
(* Two executions of one frame without history on the same inputs: the     *)
(* G-buffer, the light-tile candidates and the draws of the per-thread     *)
(* generators (seeded from pixel, frameIndex and pass index, hence equal   *)
(* in both executions).  What the executions do not share is the content   *)
(* the pixel-centre context buffer had before the frame.                   *)
(***************************************************************************)
VARIABLES det

detVars == <<det>>

\* the pixel under test and its two candidate neighbours
DetPixels == {0, 1, 2}

\* normal of the G-buffer; EvalContext::create leaves N zero on an invalid surface
Normals == {"n0"}

DetSurfaces ==
    [valid : {TRUE}, emissionLum : {Zero}, N : Normals]
    \cup [valid : {FALSE}, emissionLum : {One}, N : {"zero"}]

\* what a pixel-centre context entry not written in the frame can hold: the context an
\* earlier frame wrote for a valid surface, or the zeroes of a buffer never written
CenterContexts ==
    [valid : {TRUE}, N : Normals] \cup [valid : {FALSE}, N : {"zero"}]

\* the configuration of the two executions: spatial reuse, one light-tile candidate
DetConfig == CHOOSE c \in PixConfigs : c.useSpatialResampling /\ c.maxHistoryLength > 0

\* light-tile candidates: a light with a positive source pdf
DetCandidates ==
    { c \in LightCandidates(DetConfig) : c.pLight = One /\ isValid(c.light) /\ c.u = Half }

\* EvalContext::isValidNeighbor for a positive normalThreshold
isValidNeighbor(N, otherN) == N = otherN /\ N # "zero"

\* the two neighbour tests of the gathering loop of SpatialResampling::process
NeighborAccepted(opts, currEvalContext, currCenterContext, neighborCenterContext) ==
    /\ ~(opts.rejectNeighborPixelForNormalDepth
            /\ ~isValidNeighbor(currEvalContext.N, neighborCenterContext.N))
    /\ ~(opts.rejectNeighborPixelForHitType
            /\ currCenterContext.valid # neighborCenterContext.valid)

\* InitialResampling::process of one execution on every pixel: reservoirs, contexts and
\* the pixel-centre contexts, whose entries of background pixels keep what they held
DetInitialPass(surface, cands, stale) ==
    [reservoirs |-> [p \in DetPixels |->
         InitialProcess(surface[p].valid, cands[p], DetConfig.initialLightSampleCount,
             DetConfig.initialBRDFSampleCount, FALSE, surface[p].emissionLum, Zero,
             CheckVisibility(DetConfig), FALSE)],
     resEvalContext |-> surface,
     pixelCenterEvalContext |-> [p \in DetPixels |->
         IF surface[p].valid THEN [valid |-> TRUE, N |-> surface[p].N] ELSE stale[p]]]

\* the neighbours of qs that pass the tests, the k-th of them merged with the k-th draw
RECURSIVE DetGather(_, _, _, _, _, _)
DetGather(bufs, opts, p, qs, in, acc) ==
    IF qs = <<>> THEN acc
    ELSE LET q == Head(qs)
             accepted == NeighborAccepted(opts, bufs.resEvalContext[p],
                             bufs.pixelCenterEvalContext[p], bufs.pixelCenterEvalContext[q])
             n == [res |-> bufs.reservoirs[q], valid |-> bufs.resEvalContext[q].valid,
                   candRaw |-> in.raw[q].candRaw, canonRaw |-> in.raw[q].canonRaw,
                   u |-> in.draws[Len(acc) + 1]]
         IN DetGather(bufs, opts, p, Tail(qs), in, IF accepted THEN Append(acc, n) ELSE acc)

\* SpatialResampling::process of one execution on pixel p with candidate neighbours qs
DetSpatialPass(bufs, opts, p, qs, in) ==
    LET neigh == DetGather(bufs, opts, p, qs, in, <<>>)
    IN toReservoir(SpatialRis(bufs.reservoirs[p], bufs.resEvalContext[p].valid,
                              DetConfig.useMFactor, neigh, in.draws[Len(neigh) + 1]))

DetIdle == det = [step |-> "start"]

\* both executions run the initial pass on the same G-buffer and candidates
DetInitial ==
    /\ det.step = "start"
    /\ \E surface \in [DetPixels -> DetSurfaces] :
       \E cands \in { cs \in [DetPixels -> { <<c>> : c \in DetCandidates } \cup {<<>>}] :
                        \A p \in DetPixels : surface[p].valid <=> cs[p] # <<>> } :
          det' = [step |-> "initial", surface |-> surface, cands |-> cands]

\* the target values a spatial pass can come to use for the neighbours of pixel p
DetRaw(bufs, p) ==
    { raw \in [DetPixels -> [candRaw : PdfValues, canonRaw : PdfValues]] :
        \A q \in DetPixels :
            /\ raw[q].candRaw \in RawValues(bufs.resEvalContext[p].valid,
                                            bufs.reservoirs[q].lightSample)
            /\ raw[q].canonRaw \in RawValues(bufs.resEvalContext[q].valid,
                                             bufs.reservoirs[p].lightSample) }

\* both executions run the spatial pass of pixel 0 with the same options and draws; they
\* differ at most in what the pixel-centre entries of background pixels held before
\* (the first draw merges into the empty RIS state, where every draw selects alike)
DetSpatial ==
    /\ det.step = "initial"
    /\ \E opts \in [rejectNeighborPixelForNormalDepth : BOOLEAN,
                    rejectNeighborPixelForHitType : BOOLEAN],
          draws \in { d \in [1..3 -> UValues] : d[1] = Half } :
       \E staleA \in [DetPixels -> CenterContexts], staleB \in [DetPixels -> CenterContexts] :
          /\ \A r \in DetPixels : det.surface[r].valid =>
                 staleA[r] = staleB[r] /\ staleA[r] = [valid |-> FALSE, N |-> "zero"]
          /\ \E bufsA \in { DetInitialPass(det.surface, det.cands, staleA) },
                bufsB \in { DetInitialPass(det.surface, det.cands, staleB) } :
             \E raw \in DetRaw(bufsA, 0) :
                det' = [step |-> "spatial", surface |-> det.surface, cands |-> det.cands,
                        opts |-> opts,
                        initialA |-> bufsA.reservoirs, initialB |-> bufsB.reservoirs,
                        outA |-> DetSpatialPass(bufsA, opts, 0, <<1, 2>>,
                                                [raw |-> raw, draws |-> draws]),
                        outB |-> DetSpatialPass(bufsB, opts, 0, <<1, 2>>,
                                                [raw |-> raw, draws |-> draws])]

(***************************************************************************)
(* Light populations and their alias tables (ReSTIRGDI.cpp): the scene is  *)
(* external and may change any population between two frames; the host     *)
(* keeps one alias table per population and compiles the bit split of the  *)
(* packed light sample from the tables' counts.                            *)
(***************************************************************************)
VARIABLES scene, aliasTables, tablesBuilt, lightsDefines

lightVars == <<scene, aliasTables, tablesBuilt, lightsDefines>>

Kinds == {"env", "emissive", "analytic"}

\* light counts: none, a few, the largest count that fits and the smallest that does not
LightCounts == {0, 4, 2^28 - 1, 2^28}

\* a population is its content (id) and its number of lights: two environment maps of
\* equal size, emissive triangles that may all be dark, analytic lights of every count
Populations == [env |-> [id : {1, 2}, count : {3}], emissive |-> [id : {1, 2}, count : {3}] \cup [id : {1}, count : {0}], analytic |-> [id : {1}, count : LightCounts] \cup [id : {2}, count : {4}]]

NoTable == [count |-> -1]

\* what the weights of a table are computed from: texel luminances (env), triangle
\* radiance and area (emissive), the constant 1 per active light (analytic)
TableSource(kind, pop) == IF kind = "analytic" THEN [id |-> 0, count |-> pop.count] ELSE pop

\* AliasTable built over one weight per light
AliasTable(kind, pop) == [count |-> pop.count, builtFrom |-> TableSource(kind, pop)]

\* the scene as the renderer sees it in one frame: settings, populations, update flags
\* Scene::getUpdates() after the scene went from old to new
SceneUpdates(old, new) == (IF old.use # new.use THEN {"RenderSettingsChanged"} ELSE {}) \cup (IF old.pop["analytic"].count # new.pop["analytic"].count THEN {"LightCountChanged"} ELSE {})

\* the mpEnvLightAliasTable part of prepareLighting
prepareEnvLight(sc, table) ==
    IF sc.use["env"]
    THEN IF table = NoTable
         THEN [table |-> AliasTable("env", sc.pop["env"]), recompile |-> TRUE]
         ELSE [table |-> table, recompile |-> FALSE]
    ELSE IF table # NoTable
         THEN [table |-> NoTable, recompile |-> TRUE]
         ELSE [table |-> table, recompile |-> FALSE]

\* the mpEmissiveLightAliasTable part of prepareLighting
prepareEmissiveLights(sc, table) ==
    IF sc.use["emissive"]
    THEN IF table = NoTable /\ sc.pop["emissive"].count > 0
         THEN [table |-> AliasTable("emissive", sc.pop["emissive"]), recompile |-> TRUE]
         ELSE [table |-> table, recompile |-> FALSE]
    ELSE IF table # NoTable
         THEN [table |-> NoTable, recompile |-> TRUE]
         ELSE [table |-> table, recompile |-> FALSE]

\* the mpAnalyticLightAliasTable part of prepareLighting
prepareAnalyticLights(sc, table) ==
    IF sc.use["analytic"]
    THEN LET dropped == IF "LightCountChanged" \in sc.updates THEN NoTable ELSE table
         IN  IF dropped = NoTable /\ sc.pop["analytic"].count > 0
             THEN [table |-> AliasTable("analytic", sc.pop["analytic"]), recompile |-> TRUE]
             ELSE [table |-> dropped, recompile |-> FALSE]
    ELSE IF table # NoTable
         THEN [table |-> NoTable, recompile |-> TRUE]
         ELSE [table |-> table, recompile |-> FALSE]

\* the number of bits of count
RECURSIVE BitLength(_)
BitLength(count) == IF count = 0 THEN 0 ELSE 1 + BitLength(count \div 2)

\* the bit length taken as it is
RoundUpToEven_none(indexBits) == indexBits

\* if (indexBits & 1) ++indexBits
RoundUpToEven(indexBits) == IF indexBits % 2 = 1 THEN indexBits + 1 ELSE indexBits

Bits(indexBits, positionBits) == [indexBits |-> indexBits, positionBits |-> positionBits]

RuntimeError == [indexBits |-> -1, positionBits |-> -1]

\* the lambda computeIndexPositionBits of getLightsDefines
computeIndexPositionBits(aliasTable, defaults) ==
    IF aliasTable = NoTable THEN defaults
    ELSE LET indexBits == RoundUpToEven(BitLength(aliasTable.count))
         IN  IF indexBits >= 30 THEN RuntimeError ELSE Bits(indexBits, 30 - indexBits)

DefaultBits == [env |-> Bits(26, 4), emissive |-> Bits(22, 8), analytic |-> Bits(14, 16)]

\* ReSTIRGDI::getLightsDefines
getLightsDefines(tables) == [k \in Kinds |-> computeIndexPositionBits(tables[k], DefaultBits[k])]

LightIdle ==
    /\ scene = [use |-> [k \in Kinds |-> FALSE], pop |-> [k \in Kinds |-> CHOOSE q \in Populations[k] : q.id = 1], updates |-> {}]
    /\ aliasTables = [k \in Kinds |-> NoTable]
    /\ lightsDefines = getLightsDefines([k \in Kinds |-> NoTable])
    /\ tablesBuilt = {}

\* the scene of the next frame: any settings and populations (an environment map has
\* texels) with the update flags of the change
LightSceneUpdate ==
    /\ pc = "idle"
    /\ \E use \in [Kinds -> BOOLEAN], pop \in [env : Populations["env"], emissive : Populations["emissive"], analytic : Populations["analytic"]] :
          scene' = [use |-> use, pop |-> pop, updates |-> SceneUpdates(scene, [use |-> use, pop |-> pop])]
    /\ pc' = "prepareLighting"
    /\ UNCHANGED <<aliasTables, tablesBuilt, lightsDefines>>
    /\ UNCHANGED <<mOptions, mRecompile, mResetTemporalReservoirs, mFrameDim, frameCount, resources, dispatches, prevAtStart, recompiled>>

\* ReSTIRGDI::prepareLighting with its alias tables
LightPrepareLighting ==
    /\ pc = "prepareLighting"
    /\ \E env \in { prepareEnvLight(scene, aliasTables["env"]) },
          emissive \in { prepareEmissiveLights(scene, aliasTables["emissive"]) },
          analytic \in { prepareAnalyticLights(scene, aliasTables["analytic"]) } :
          /\ aliasTables' = [env |-> env.table, emissive |-> emissive.table, analytic |-> analytic.table]
          /\ tablesBuilt' = { k \in Kinds : [env |-> env, emissive |-> emissive, analytic |-> analytic][k].recompile }
          /\ mRecompile' = (\/ mRecompile
                            \/ "RenderSettingsChanged" \in scene.updates
                            \/ env.recompile \/ emissive.recompile \/ analytic.recompile)
    /\ pc' = "updatePrograms"
    /\ UNCHANGED <<scene, lightsDefines>>
    /\ UNCHANGED <<mOptions, mResetTemporalReservoirs, mFrameDim, frameCount, resources, dispatches, prevAtStart, recompiled>>

\* ReSTIRGDI::updatePrograms with the defines of getLightsDefines(), whose throw ends
\* the run
LightUpdatePrograms ==
    /\ pc = "updatePrograms"
    /\ IF ~mRecompile
       THEN /\ pc' = "generateLightTiles"
            /\ UNCHANGED <<mRecompile, mResetTemporalReservoirs, recompiled, lightsDefines>>
       ELSE \E defines \in { getLightsDefines(aliasTables) } :
               IF \E k \in Kinds : defines[k] = RuntimeError
               THEN /\ pc' = "terminated"
                    /\ UNCHANGED <<mRecompile, mResetTemporalReservoirs, recompiled, lightsDefines>>
               ELSE /\ lightsDefines' = defines
                    /\ mRecompile' = FALSE
                    /\ mResetTemporalReservoirs' = TRUE
                    /\ recompiled' = TRUE
                    /\ pc' = "generateLightTiles"
    /\ UNCHANGED <<scene, aliasTables, tablesBuilt>>
    /\ UNCHANGED <<mOptions, mFrameDim, frameCount, resources, dispatches, prevAtStart>>

\* ReSTIRGDI::generateLightTiles: the dispatch samples the alias tables of this state
\* with the compiled bit split; the frame ends
LightGenerateTiles ==
    /\ pc = "generateLightTiles"
    /\ pc' = "idle"
    /\ UNCHANGED <<scene, aliasTables, tablesBuilt, lightsDefines>>
    /\ UNCHANGED <<mOptions, mRecompile, mResetTemporalReservoirs, mFrameDim, frameCount, resources, dispatches, prevAtStart, recompiled>>

(***************************************************************************)
(* 32-bit words: bit i of a word is w[i].  A uint32_t or int of the code   *)
(* is kept as the integer its 32 bits denote when read as an int, so that  *)
(* the uint32_t 0xFFFFFFFF is -1.                                          *)
(***************************************************************************)
WordIndex == 0..31

\* the two's complement bits of an integer
ToWord(n) ==
    LET m == IF n >= 0 THEN n ELSE -n - 1
        bit(i) == IF i = 31 THEN 0 ELSE (m \div 2^i) % 2
    IN [i \in WordIndex |-> IF n >= 0 THEN bit(i) ELSE 1 - bit(i)]

RECURSIVE LowBitsValue(_, _)
LowBitsValue(w, i) == IF i < 0 THEN 0 ELSE w[i] * 2^i + LowBitsValue(w, i - 1)

\* the integer a word denotes when read as an int
FromWord(w) ==
    IF w[31] = 0 THEN LowBitsValue(w, 30)
    ELSE -LowBitsValue([i \in WordIndex |-> 1 - w[i]], 30) - 1

WordAnd(a, b) == [i \in WordIndex |-> a[i] * b[i]]

WordOr(a, b) == [i \in WordIndex |-> IF a[i] + b[i] > 0 THEN 1 ELSE 0]

\* w << k and the two readings of w >> k, for 0 <= k < 32
ShiftLeft(w, k) == [i \in WordIndex |-> IF i >= k THEN w[i - k] ELSE 0]

ShiftRightLogical(w, k) == [i \in WordIndex |-> IF i + k <= 31 THEN w[i + k] ELSE 0]

ShiftRightArithmetic(w, k) == [i \in WordIndex |-> IF i + k <= 31 THEN w[i + k] ELSE w[31]]

(***************************************************************************)
(* Packed reservoirs (RestirgdiTypes.h).  mVisibility and distanceAge are  *)
(* kept as 32-bit words; the unsigned and signed fields of a reservoir are *)
(* integers, its float fields are extended rationals.                      *)
(***************************************************************************)
RESTIR_PackedReservoir_VisibilityMask == 262143

RESTIR_PackedReservoir_MShift == 18

RESTIR_PackedReservoir_MaxM == 16383

RESTIR_PackedReservoir_DistanceChannelBits == 8

RESTIR_PackedReservoir_DistanceXShift == 0

RESTIR_PackedReservoir_DistanceYShift == 8

RESTIR_PackedReservoir_AgeShift == 16

RESTIR_PackedReservoir_MaxAge == 255

RESTIR_PackedReservoir_DistanceMask == 2^RESTIR_PackedReservoir_DistanceChannelBits - 1

RESTIR_PackedReservoir_MaxDistance == 2^(RESTIR_PackedReservoir_DistanceChannelBits - 1) - 1

\* clamp(x, minVal, maxVal) on integers
clamp(x, minVal, maxVal) == IF x < minVal THEN minVal ELSE IF x > maxVal THEN maxVal ELSE x

\* the distance channel of distanceAge: (clamped & DistanceMask) << shift
PackDistance(distance, shift) ==
    ShiftLeft(WordAnd(ToWord(clamp(distance, -RESTIR_PackedReservoir_MaxDistance,
                                   RESTIR_PackedReservoir_MaxDistance)),
                      ToWord(RESTIR_PackedReservoir_DistanceMask)), shift)

\* RESTIR_PackReservoir
RESTIR_PackReservoir(reservoir) ==
    LET clampedAge == clamp(reservoir.age, 0, RESTIR_PackedReservoir_MaxAge)
    IN [lightData |-> reservoir.lightData,
        uvData |-> reservoir.uvData,
        mVisibility |->
            WordOr(ToWord(reservoir.packedVisibility),
                   ShiftLeft(ToWord(UMin(ToUint(reservoir.M), RESTIR_PackedReservoir_MaxM)),
                             RESTIR_PackedReservoir_MShift)),
        distanceAge |->
            WordOr(WordOr(PackDistance(reservoir.spatialDistance[1],
                                       RESTIR_PackedReservoir_DistanceXShift),
                          PackDistance(reservoir.spatialDistance[2],
                                       RESTIR_PackedReservoir_DistanceYShift)),
                   ShiftLeft(ToWord(clampedAge), RESTIR_PackedReservoir_AgeShift)),
        targetPdf |-> reservoir.targetPdf,
        weight |-> reservoir.weightSum]

\* RESTIR_EmptyReservoir
RESTIR_EmptyReservoir ==
    [lightData |-> 0, uvData |-> 0, targetPdf |-> Zero, weightSum |-> Zero, M |-> Zero,
     packedVisibility |-> 0, spatialDistance |-> <<0, 0>>, age |-> 0,
     canonicalWeight |-> Zero]

\* variant: the distance channel shifted down without its sign
SignExtendDistance_logical(distanceAge, shift) ==
    FromWord(ShiftRightLogical(
        ShiftLeft(distanceAge, 32 - shift - RESTIR_PackedReservoir_DistanceChannelBits),
        32 - RESTIR_PackedReservoir_DistanceChannelBits))

\* int(data.distanceAge << (32 - shift - DistanceChannelBits)) >> (32 - DistanceChannelBits)
SignExtendDistance(distanceAge, shift) ==
    FromWord(ShiftRightArithmetic(
        ShiftLeft(distanceAge, 32 - shift - RESTIR_PackedReservoir_DistanceChannelBits),
        32 - RESTIR_PackedReservoir_DistanceChannelBits))

\* RESTIR_UnpackReservoir
RESTIR_UnpackReservoir(data) ==
    LET res == [lightData |-> data.lightData,
                uvData |-> data.uvData,
                targetPdf |-> data.targetPdf,
                weightSum |-> data.weight,
                M |-> FromInt(FromWord(WordAnd(
                          ShiftRightLogical(data.mVisibility, RESTIR_PackedReservoir_MShift),
                          ToWord(RESTIR_PackedReservoir_MaxM)))),
                packedVisibility |->
                    FromWord(WordAnd(data.mVisibility,
                                     ToWord(RESTIR_PackedReservoir_VisibilityMask))),
                spatialDistance |->
                    <<SignExtendDistance(data.distanceAge,
                                         RESTIR_PackedReservoir_DistanceXShift),
                      SignExtendDistance(data.distanceAge,
                                         RESTIR_PackedReservoir_DistanceYShift)>>,
                age |-> FromWord(WordAnd(
                            ShiftRightLogical(data.distanceAge,
                                              RESTIR_PackedReservoir_AgeShift),
                            ToWord(RESTIR_PackedReservoir_MaxAge))),
                canonicalWeight |-> Zero]
    IN IF IsInf(res.weightSum) \/ IsNaN(res.weightSum) THEN RESTIR_EmptyReservoir ELSE res

\* reservoirs handed to RESTIR_PackReservoir: sample counts, ages and distances inside,
\* at and beyond the limits of their packed fields
PackableReservoirs ==
    [lightData : {0, 5}, uvData : {3}, targetPdf : {One},
     weightSum : {Zero, Half, PosInf, NaN},
     M : {Zero, One, FromInt(16383), FromInt(16384), FromInt(20000)},
     packedVisibility : {0, 1, 262143, 262144},
     spatialDistance : {-200, -128, -127, -1, 0, 1, 127, 128} \X {-128, -5, 127},
     age : {0, 255, 256, 1000},
     canonicalWeight : {One}]

\* RESTIR_StoreReservoir followed by RESTIR_LoadReservoir of the same entry
UnitPackReservoir ==
    /\ uOp = "none"
    /\ \E reservoir \in PackableReservoirs :
        \E data \in { RESTIR_PackReservoir(reservoir) } :
           /\ uOp' = "packReservoir"
           /\ uIn' = reservoir
           /\ uOut' = [packed |-> data, unpacked |-> RESTIR_UnpackReservoir(data)]

(***************************************************************************)
(* The reservoir-slot variant of the host (Rendering/RESTIRGDI): one       *)
(* reservoir buffer of kMaxReservoirs slots per pixel, the candidate slot  *)
(* and the slot of the last frame's output.                                *)
(***************************************************************************)
VARIABLES slotPc, slotOptions, clearReservoirs, mLastFrameReservoirID, mpRESTIRContext,
          slotFrameDim, slotDispatches, clearRequested, clearedInFrame

slotVars == <<slotPc, slotOptions, clearReservoirs, mLastFrameReservoirID, mpRESTIRContext,
              slotFrameDim, slotDispatches, clearRequested, clearedInFrame>>

kMaxReservoirs == 3

kCandidateReservoirID == 2

kMinPresampledTileCount == 1

kMaxPresampledTileCount == 1024

kMinPresampledTileSize == 256

kMaxPresampledTileSize == 8192

kMaxLightCandidateCount == 256

kMaxSpatialIterations == 10

Modes == {"NoResampling", "SpatialResampling", "TemporalResampling", "SpatiotemporalResampling"}

\* tile configurations a host passes: the defaults, a count and a size that are no
\* powers of two, and values outside the accepted ranges
TileOptions ==
    { [presampledTileCount |-> 128, presampledTileSize |-> 1024],
      [presampledTileCount |-> 3, presampledTileSize |-> 1024],
      [presampledTileCount |-> 0, presampledTileSize |-> 384] }

\* the Options a host passes, before validation
SlotOptionsSet ==
    [mode : Modes, tiles : TileOptions, envLightCandidateCount : {0, 8},
     testCandidateVisibility : BOOLEAN, spatialIterations : {0, 1, 2}]

\* IsNonzeroPowerOf2
IsNonzeroPowerOf2(i) == WordAnd(ToWord(i), ToWord(i - 1)) = ToWord(0) /\ i > 0

\* validateRange: std::clamp(value, minValue, maxValue)
validateRange(value, minValue, maxValue) ==
    IF value < minValue THEN minValue ELSE IF value > maxValue THEN maxValue ELSE value

\* the Options setOptions stores
ValidatedOptions(options) ==
    [options EXCEPT
        !.tiles = [presampledTileCount |-> validateRange(@.presampledTileCount,
                       kMinPresampledTileCount, kMaxPresampledTileCount),
                   presampledTileSize |-> validateRange(@.presampledTileSize,
                       kMinPresampledTileSize, kMaxPresampledTileSize)],
        !.envLightCandidateCount = validateRange(@, 0, kMaxLightCandidateCount),
        !.spatialIterations = validateRange(@, 0, kMaxSpatialIterations)]

\* variant: only a change of mode requests the clear
ClearOnSetOptions_modeOnly(newOptions, oldOptions) == newOptions.mode # oldOptions.mode

\* the conditions under which setOptions sets mFlags.clearReservoirs
ClearOnSetOptions(newOptions, oldOptions) ==
    \/ newOptions.mode # oldOptions.mode
    \/ (newOptions.envLightCandidateCount # oldOptions.envLightCandidateCount
           /\ newOptions.envLightCandidateCount = 0)
    \/ newOptions.testCandidateVisibility # oldOptions.testCandidateVisibility

\* variant: a change of mode leaves mLastFrameReservoirID as it is
LastFrameReservoirAfterSetOptions_kept(newOptions, oldOptions, lastID) == lastID

\* mLastFrameReservoirID after setOptions
LastFrameReservoirAfterSetOptions(newOptions, oldOptions, lastID) ==
    IF newOptions.mode # oldOptions.mode THEN 0 ELSE lastID

NullContext == [TileSize |-> 0, TileCount |-> 0, RenderWidth |-> 0]

\* what a change of options or of the frame asks of the next beginFrame, stated on
\* the values alone: a clear of the reservoir buffer
ChangeAsksClear(newOptions, oldOptions) ==
    \/ newOptions.mode # oldOptions.mode
    \/ newOptions.testCandidateVisibility # oldOptions.testCandidateVisibility
    \/ (newOptions.envLightCandidateCount # oldOptions.envLightCandidateCount
           /\ newOptions.envLightCandidateCount = 0)
    \/ newOptions.tiles # oldOptions.tiles

\* the members of an instance before its first frame, up to its options
SlotMembers ==
    /\ slotPc = "idle"
    /\ clearReservoirs = FALSE
    /\ mLastFrameReservoirID = 1
    /\ mpRESTIRContext = NullContext
    /\ slotFrameDim = 0
    /\ slotDispatches = <<>>
    /\ clearRequested = FALSE
    /\ clearedInFrame = FALSE

\* the instance at rest
SlotIdle == SlotMembers /\ slotOptions = ValidatedOptions(CHOOSE o \in SlotOptionsSet : TRUE)

\* the instance right after its constructor, which stores the options and runs
\* setOptions on them
SlotStart == SlotMembers /\ slotOptions \in { ValidatedOptions(o) : o \in SlotOptionsSet }

\* ReSTIRGDI::setOptions of the slot variant (renderUI calls it with the edited copy)
SlotSetOptions(options) ==
    /\ slotPc = "idle"
    /\ \E newOptions \in { ValidatedOptions(options) } :
        /\ clearReservoirs' = (clearReservoirs \/ ClearOnSetOptions(newOptions, slotOptions))
        /\ mLastFrameReservoirID' =
               LastFrameReservoirAfterSetOptions(newOptions, slotOptions, mLastFrameReservoirID)
        /\ mpRESTIRContext' = IF newOptions.tiles # slotOptions.tiles
                              THEN NullContext ELSE mpRESTIRContext
        /\ clearRequested' = (clearRequested \/ ChangeAsksClear(newOptions, slotOptions))
        /\ slotOptions' = newOptions
    /\ UNCHANGED <<slotPc, slotFrameDim, slotDispatches, clearedInFrame>>

\* variant: prepareResources leaves mFlags.clearReservoirs as it is
ClearOnPrepareResources_kept(flag) == flag

\* prepareResources: mFlags.clearReservoirs = true
ClearOnPrepareResources(flag) == TRUE

\* ReSTIRGDI::beginFrame with prepareResources and the constructor of restir::Context,
\* whose asserts end the run in a build that keeps them
SlotBeginFrame(frameDim) ==
    /\ slotPc = "idle"
    /\ slotFrameDim' = frameDim
    /\ \E context \in { IF frameDim # slotFrameDim THEN NullContext ELSE mpRESTIRContext } :
       \E created \in { [TileSize |-> slotOptions.tiles.presampledTileSize,
                         TileCount |-> slotOptions.tiles.presampledTileCount,
                         RenderWidth |-> frameDim] } :
       \E flag \in { IF context = NullContext
                     THEN ClearOnPrepareResources(clearReservoirs) ELSE clearReservoirs } :
        /\ mpRESTIRContext' = IF context = NullContext THEN created ELSE context
        /\ clearedInFrame' = flag
        /\ clearReservoirs' = FALSE
        /\ clearRequested' = (clearRequested \/ frameDim # slotFrameDim)
        /\ \/ slotPc' = "update"
           \/ /\ context = NullContext
              /\ ~(IsNonzeroPowerOf2(created.TileSize) /\ IsNonzeroPowerOf2(created.TileCount))
              /\ slotPc' = "aborted"
    /\ slotDispatches' = <<>>
    /\ UNCHANGED <<slotOptions, mLastFrameReservoirID>>

SlotDispatch(pass, reads, writes) == [pass |-> pass, reads |-> reads, writes |-> writes]

\* generateCandidates and testCandidateVisibility on the candidate slot
CandidateDispatches(options) ==
    <<SlotDispatch("generateCandidates", {}, kCandidateReservoirID)>>
    \o (IF options.mode # "NoResampling" /\ options.testCandidateVisibility
        THEN <<SlotDispatch("testCandidateVisibility", {kCandidateReservoirID},
                            kCandidateReservoirID)>>
        ELSE <<>>)

\* the loop of ReSTIRGDI::spatialResampling from iteration i on
RECURSIVE SpatialPingPong(_, _, _, _, _)
SpatialPingPong(i, spatialIterations, inputID, outputID, ds) ==
    IF i >= spatialIterations THEN [dispatches |-> ds, output |-> inputID]
    ELSE SpatialPingPong(i + 1, spatialIterations, outputID, inputID,
             Append(ds, SlotDispatch("spatialResampling", {inputID}, outputID)))

\* ReSTIRGDI::spatialResampling of the slot variant
SlotSpatialResampling(options, inputReservoirID) ==
    SpatialPingPong(0, options.spatialIterations, inputReservoirID,
                    IF inputReservoirID # 1 THEN 1 ELSE 0, <<>>)

\* ReSTIRGDI::temporalResampling and ReSTIRGDI::spatiotemporalResampling
SlotTemporalResampling(pass, candidateReservoirID, lastFrameReservoirID) ==
    [dispatches |-> <<SlotDispatch(pass, {lastFrameReservoirID, candidateReservoirID},
                                   1 - lastFrameReservoirID)>>,
     output |-> 1 - lastFrameReservoirID]

\* the switch of ReSTIRGDI::update
UpdateOutput(options, lastID) ==
    CASE options.mode = "NoResampling" -> [dispatches |-> <<>>, output |-> kCandidateReservoirID]
      [] options.mode = "SpatialResampling" -> SlotSpatialResampling(options, kCandidateReservoirID)
      [] options.mode = "TemporalResampling" ->
             SlotTemporalResampling("temporalResampling", kCandidateReservoirID, lastID)
      [] options.mode = "SpatiotemporalResampling" ->
             SlotTemporalResampling("spatiotemporalResampling", kCandidateReservoirID, lastID)

\* ReSTIRGDI::update
SlotUpdate ==
    /\ slotPc = "update"
    /\ \E out \in { UpdateOutput(slotOptions, mLastFrameReservoirID) } :
        /\ slotDispatches' = CandidateDispatches(slotOptions) \o out.dispatches
        /\ mLastFrameReservoirID' = out.output
    /\ slotPc' = "endFrame"
    /\ UNCHANGED <<slotOptions, clearReservoirs, mpRESTIRContext, slotFrameDim,
                   clearRequested, clearedInFrame>>

\* ReSTIRGDI::endFrame
SlotEndFrame ==
    /\ slotPc = "endFrame"
    /\ slotPc' = "idle"
    /\ clearRequested' = FALSE
    /\ UNCHANGED <<slotOptions, clearReservoirs, mLastFrameReservoirID, mpRESTIRContext,
                   slotFrameDim, slotDispatches, clearedInFrame>>

(***************************************************************************)
(* A host that passes one and the same Options value to setOptions before  *)
(* every frame of a scene whose lights do not change after the first       *)
(* frame.                                                                  *)
(***************************************************************************)
VARIABLES hostOptions, optionsPassed, recompilations

sameVars == <<hostOptions, optionsPassed, recompilations>>

SameIdle ==
    /\ hostOptions = CHOOSE o \in OptionsSet : TRUE
    /\ optionsPassed = FALSE
    /\ recompilations = 0

\* the host hands its Options to setOptions
SamePassOptions ==
    /\ ~optionsPassed
    /\ setOptions(hostOptions)
    /\ optionsPassed' = TRUE
    /\ UNCHANGED <<hostOptions, recompilations, lastWritten>>

SameBeginFrame ==
    /\ optionsPassed
    /\ \E frameDim \in 1..MaxDim : beginFrame(frameDim)
    /\ optionsPassed' = FALSE
    /\ UNCHANGED <<hostOptions, recompilations>>

\* prepareLighting: the alias tables are built in the first frame only
SamePrepareLighting ==
    /\ prepareLighting
    /\ frameCount > 1 => mRecompile' = mRecompile
    /\ UNCHANGED <<sameVars, lastWritten>>

\* updatePrograms, counting the recompilations (each sets mResetTemporalReservoirs)
SameUpdatePrograms ==
    /\ updatePrograms
    /\ recompilations' = IF recompiled' /\ ~recompiled THEN recompilations + 1
                          ELSE recompilations
    /\ UNCHANGED <<hostOptions, optionsPassed, lastWritten>>

\* the remaining stages of updateReSTIRDI
SameResampling ==
    /\ \/ updateEmissiveTriangles \/ generateLightTiles \/ initialResampling
       \/ temporalResampling \/ spatialResampling
    /\ UNCHANGED <<sameVars, lastWritten>>

SameEvaluateFinalSamples == evaluateFinalSamples /\ UNCHANGED sameVars

SameEndFrame == endFrame /\ UNCHANGED <<sameVars, lastWritten>>

PixIdle ==
    /\ frameIndex = 1
    /\ stage = "idle"
    /\ thread = 0
    /\ spatialIter = 0
    /\ cfg = CHOOSE c \in PixConfigs : TRUE
    /\ reservoirs = [p \in Pixels |-> Unwritten]
    /\ prevReservoirs = [p \in Pixels |-> Unwritten]
    /\ resEvalContext = [p \in Pixels |-> Unwritten]
    /\ prevResEvalContext = [p \in Pixels |-> Unwritten]
    /\ written = NoWrites
    /\ unblockedRay = FALSE
    /\ last = NoLast

Init == HostIdle /\ PixIdle /\ UnitIdle /\ DetIdle /\ LightIdle /\ SameIdle /\ SlotIdle

Next ==
    \/ (\E options \in OptionsSet : setOptions(options)) /\ UNCHANGED <<pixVars, unitVars, detVars, lightVars, sameVars, slotVars, lastWritten>>
    \/ (\E options \in OptionsSet : renderUI(options)) /\ UNCHANGED <<pixVars, unitVars, detVars, lightVars, sameVars, slotVars, lastWritten>>
    \/ (\E frameDim \in 1..MaxDim : beginFrame(frameDim)) /\ UNCHANGED <<pixVars, unitVars, detVars, lightVars, sameVars, slotVars>>
    \/ prepareLighting /\ UNCHANGED <<pixVars, unitVars, detVars, lightVars, sameVars, slotVars, lastWritten>>
    \/ updatePrograms /\ UNCHANGED <<pixVars, unitVars, detVars, lightVars, sameVars, slotVars, lastWritten>>
    \/ updateEmissiveTriangles /\ UNCHANGED <<pixVars, unitVars, detVars, lightVars, sameVars, slotVars, lastWritten>>
    \/ generateLightTiles /\ UNCHANGED <<pixVars, unitVars, detVars, lightVars, sameVars, slotVars, lastWritten>>
    \/ initialResampling /\ UNCHANGED <<pixVars, unitVars, detVars, lightVars, sameVars, slotVars, lastWritten>>
    \/ temporalResampling /\ UNCHANGED <<pixVars, unitVars, detVars, lightVars, sameVars, slotVars, lastWritten>>
    \/ spatialResampling /\ UNCHANGED <<pixVars, unitVars, detVars, lightVars, sameVars, slotVars, lastWritten>>
    \/ evaluateFinalSamples /\ UNCHANGED <<pixVars, unitVars, detVars, lightVars, sameVars, slotVars>>
    \/ endFrame /\ UNCHANGED <<pixVars, unitVars, detVars, lightVars, sameVars, slotVars, lastWritten>>

vars == <<hostVars, pixVars, unitVars, detVars, lightVars, sameVars, slotVars>>

Spec == Init /\ [][Next]_vars

\* the host at rest
HostRest ==
    /\ mOptions = CHOOSE o \in OptionsSet : TRUE
    /\ mRecompile = InitialRecompile
    /\ mResetTemporalReservoirs = TRUE
    /\ mFrameDim = 0
    /\ frameCount = 0
    /\ pc = "idle"
    /\ resources = [n \in { ResourceNames[i] : i \in DOMAIN ResourceNames } |-> Null]
    /\ dispatches = <<>>
    /\ prevAtStart = {}
    /\ recompiled = FALSE
    /\ lastWritten = NoOutput

PixInit == PixStart /\ HostRest /\ UnitIdle /\ DetIdle /\ LightIdle /\ SameIdle /\ SlotIdle

PixNext ==
    \/ PixBeginFrame /\ UNCHANGED <<hostVars, unitVars, detVars, lightVars, sameVars, slotVars>>
    \/ PixInitialThread /\ UNCHANGED <<hostVars, unitVars, detVars, lightVars, sameVars, slotVars>>
    \/ PixTemporalThread /\ UNCHANGED <<hostVars, unitVars, detVars, lightVars, sameVars, slotVars>>
    \/ PixSpatialLoop /\ UNCHANGED <<hostVars, unitVars, detVars, lightVars, sameVars, slotVars>>
    \/ PixSpatialThread /\ UNCHANGED <<hostVars, unitVars, detVars, lightVars, sameVars, slotVars>>
    \/ PixFinalThread /\ UNCHANGED <<hostVars, unitVars, detVars, lightVars, sameVars, slotVars>>
    \/ PixEndFrame /\ UNCHANGED <<hostVars, unitVars, detVars, lightVars, sameVars, slotVars>>

PixSpec == PixInit /\ [][PixNext]_vars

UnitInit == UnitIdle /\ HostRest /\ PixIdle /\ DetIdle /\ LightIdle /\ SameIdle /\ SlotIdle

UnitNext ==
    \/ UnitToReservoir /\ UNCHANGED <<hostVars, pixVars, detVars, lightVars, sameVars, slotVars>>
    \/ UnitPairwiseMIS /\ UNCHANGED <<hostVars, pixVars, detVars, lightVars, sameVars, slotVars>>
    \/ UnitTemporal /\ UNCHANGED <<hostVars, pixVars, detVars, lightVars, sameVars, slotVars>>
    \/ UnitSpatial /\ UNCHANGED <<hostVars, pixVars, detVars, lightVars, sameVars, slotVars>>
    \/ UnitInitialResample /\ UNCHANGED <<hostVars, pixVars, detVars, lightVars, sameVars, slotVars>>
    \/ UnitMFactor /\ UNCHANGED <<hostVars, pixVars, detVars, lightVars, sameVars, slotVars>>
    \/ UnitSpatialLoops /\ UNCHANGED <<hostVars, pixVars, detVars, lightVars, sameVars, slotVars>>
    \/ UnitNeighborTest /\ UNCHANGED <<hostVars, pixVars, detVars, lightVars, sameVars, slotVars>>
    \/ UnitInitialVisibility /\ UNCHANGED <<hostVars, pixVars, detVars, lightVars, sameVars, slotVars>>
    \/ UnitLightTileSlots /\ UNCHANGED <<hostVars, pixVars, detVars, lightVars, sameVars, slotVars>>
    \/ UnitPathSample /\ UNCHANGED <<hostVars, pixVars, detVars, lightVars, sameVars, slotVars>>
    \/ UnitPackReservoir /\ UNCHANGED <<hostVars, pixVars, detVars, lightVars, sameVars, slotVars>>

UnitSpec == UnitInit /\ [][UnitNext]_vars

DetInit == DetIdle /\ HostRest /\ PixIdle /\ UnitIdle /\ LightIdle /\ SameIdle /\ SlotIdle

DetNext ==
    \/ DetInitial /\ UNCHANGED <<hostVars, pixVars, unitVars, lightVars, sameVars, slotVars>>
    \/ DetSpatial /\ UNCHANGED <<hostVars, pixVars, unitVars, lightVars, sameVars, slotVars>>

DetSpec == DetInit /\ [][DetNext]_vars

LightInit == LightIdle /\ HostRest /\ PixIdle /\ UnitIdle /\ DetIdle /\ SameIdle /\ SlotIdle

LightNext ==
    \/ LightSceneUpdate /\ UNCHANGED <<pixVars, unitVars, detVars, sameVars, slotVars, lastWritten>>
    \/ LightPrepareLighting /\ UNCHANGED <<pixVars, unitVars, detVars, sameVars, slotVars, lastWritten>>
    \/ LightUpdatePrograms /\ UNCHANGED <<pixVars, unitVars, detVars, sameVars, slotVars, lastWritten>>
    \/ LightGenerateTiles /\ UNCHANGED <<pixVars, unitVars, detVars, sameVars, slotVars, lastWritten>>

LightSpec == LightInit /\ [][LightNext]_vars

SlotInit == SlotStart /\ HostRest /\ PixIdle /\ UnitIdle /\ DetIdle /\ LightIdle /\ SameIdle

SlotNext ==
    \/ (\E options \in SlotOptionsSet : SlotSetOptions(options)) /\ UNCHANGED <<hostVars, pixVars, unitVars, detVars, lightVars, sameVars>>
    \/ (\E frameDim \in 1..MaxDim : SlotBeginFrame(frameDim)) /\ UNCHANGED <<hostVars, pixVars, unitVars, detVars, lightVars, sameVars>>
    \/ SlotUpdate /\ UNCHANGED <<hostVars, pixVars, unitVars, detVars, lightVars, sameVars>>
    \/ SlotEndFrame /\ UNCHANGED <<hostVars, pixVars, unitVars, detVars, lightVars, sameVars>>

SlotSpec == SlotInit /\ [][SlotNext]_vars

SameInit == HostIdle /\ hostOptions \in OptionsSet /\ optionsPassed = FALSE /\ recompilations = 0 /\ PixIdle /\ UnitIdle /\ DetIdle /\ LightIdle /\ SlotIdle

SameNext ==
    \/ SamePassOptions /\ UNCHANGED <<pixVars, unitVars, detVars, lightVars, slotVars>>
    \/ SameBeginFrame /\ UNCHANGED <<pixVars, unitVars, detVars, lightVars, slotVars>>
    \/ SamePrepareLighting /\ UNCHANGED <<pixVars, unitVars, detVars, lightVars, slotVars>>
    \/ SameUpdatePrograms /\ UNCHANGED <<pixVars, unitVars, detVars, lightVars, slotVars>>
    \/ SameResampling /\ UNCHANGED <<pixVars, unitVars, detVars, lightVars, slotVars>>
    \/ SameEvaluateFinalSamples /\ UNCHANGED <<pixVars, unitVars, detVars, lightVars, slotVars>>
    \/ SameEndFrame /\ UNCHANGED <<pixVars, unitVars, detVars, lightVars, slotVars>>

SameOptionsSpec == SameInit /\ [][SameNext]_vars

(***************************************************************************)
(* Properties of the reservoirs                                            *)
(***************************************************************************)
\* a weight that is finite and >= 0
FiniteNonNegative(w) == IsFinite(w) /\ FGe(w, Zero)

\* C1: every reservoir that InitialResampling (background branch included),
\* TemporalResampling or SpatialResampling writes to a reservoir buffer has a weight
\* that is finite and >= 0, and when the computed weight is Inf or NaN the stored
\* reservoir is exactly the empty one (M = 0, weight = 0, invalid light sample).
C1_WrittenWeightFiniteNonNegative ==
    /\ \A p \in Pixels :
          /\ (reservoirs[p] # Unwritten => FiniteNonNegative(reservoirs[p].weight))
          /\ (prevReservoirs[p] # Unwritten => FiniteNonNegative(prevReservoirs[p].weight))
    /\ (last.wrote =>
          /\ FiniteNonNegative(last.out.weight)
          /\ (IsInf(last.risWeight) \/ IsNaN(last.risWeight) => IsEmptyReservoir(last.out)))

\* a pass computed a NaN weight and stored the empty reservoir
C1_Witness ==
    /\ last.wrote
    /\ IsNaN(last.risWeight)
    /\ IsEmptyReservoir(last.out)

\* C2: a RIS state with weightSum = +Inf or targetPdf = NaN, finalized with
\* weight = targetPdf > 0 ? weightSum / targetPdf : 0, gives M = 0, weight = 0 and an
\* invalid light sample after toReservoir().
C2_InfNaNStateCollapses ==
    (uOp = "toReservoir" /\ (uIn.weightSum = PosInf \/ IsNaN(uIn.targetPdf)))
        => IsEmptyReservoir(uOut.reservoir)

\* a canonical reservoir that holds a sample: M >= 1, targetPdf > 0, finite weight > 0
NonEmptyCanonical(r) ==
    r.M >= 1 /\ FGt(r.targetPdf, Zero) /\ IsFinite(r.weight) /\ FGt(r.weight, Zero)

SameSample(a, b) ==
    /\ a.lightSample = b.lightSample
    /\ a.targetPdf = b.targetPdf
    /\ a.weight = b.weight
    /\ a.M = b.M

\* C3: merging a non-empty canonical reservoir with empty candidates only leaves it
\* unchanged: after TemporalResampling with an empty history reservoir, and after
\* SpatialResampling where every accepted neighbour is empty, the reservoir written has
\* the light sample, targetPdf, weight and M of the canonical input.
C3_EmptyCandidatesKeepCanonical ==
    (/\ last.wrote
     /\ last.stage \in {"temporal", "spatial"}
     /\ NonEmptyCanonical(last.canonical)
     /\ last.candidatesEmpty)
        => SameSample(last.out, last.canonical)

\* C4: no division of the resampling code is executed with a zero denominator.
C4_NoDivisionByZero == ~last.divZero

PairwiseMISValues ==
    { uOut.nonDefensiveNonCanonical, uOut.nonDefensiveCanonical,
      uOut.defensiveNonCanonical, uOut.defensiveCanonical }

\* C5: for non-negative mCandidate, mCanonical, p_i, p_c and mSum >= mCanonical +
\* mCandidate, each of the four pairwise-MIS weights is in [0, 1], and is exactly 0
\* when p_c = 0.
C5_PairwiseMISBounds ==
    uOp = "pairwiseMIS" =>
        \A w \in PairwiseMISValues :
            /\ FGe(w, Zero)
            /\ FLe(w, One)
            /\ (FEq(uIn.pc, Zero) => w = Zero)

\* C6: the M of the history reservoir that enters the temporal merge is
\* min(prevM, currentM * kMaxHistoryLength), so that without the M factor the merged
\* state counts that many samples plus the current ones; prevM = 1000, currentM = 1,
\* kMaxHistoryLength = 20 reuse M = 20.
C6_HistoryMClamp ==
    uOp = "temporal" =>
        LET bound == uIn.currentM * uIn.kMaxHistoryLength
            expected == IF uIn.prevM < bound THEN uIn.prevM ELSE bound
        IN /\ uOut.reusedM = expected
           /\ (~uIn.useMFactor => uOut.risM = FromInt(expected + uIn.currentM))
           /\ ((uIn.prevM = LargeM /\ uIn.currentM = 1
                  /\ uIn.kMaxHistoryLength = DefaultHistoryLength)
                 => uOut.reusedM = DefaultHistoryLength)

\* the history of 1000 samples is reused as 20
C6_Witness ==
    /\ uOp = "temporal"
    /\ uIn.prevM = LargeM /\ uIn.currentM = 1 /\ uIn.kMaxHistoryLength = DefaultHistoryLength
    /\ ~uIn.useMFactor
    /\ uOut.reusedM = DefaultHistoryLength
    /\ uOut.risM = FromInt(DefaultHistoryLength + 1)

\* the initial pass of the frame has run and no spatial iteration has swapped yet
AfterInitialPass == stage \in {"temporal", "spatialLoop"} /\ spatialIter = 0

\* C11: InitialResampling writes the reservoir, the reservoir eval-context and the
\* pixel-centre eval-context of every in-bounds pixel, background pixels included, so
\* that no later stage of the frame reads an entry of them not written in that frame.
C11_InitialWritesAllOutputs ==
    /\ AfterInitialPass =>
          \A p \in Pixels : /\ p \in written.reservoirs
                            /\ p \in written.resEvalContext
                            /\ p \in written.pixelCenterEvalContext
    /\ ~last.readStale

\* C12: if every visibility ray is blocked, the final sample of every valid-surface
\* pixel has incident radiance Li exactly 0, in every frame, while the M of the
\* reservoir stored for the pixel is non-zero.
C12_OccludedFinalIsZero ==
    (last.stage = "final" /\ last.surfaceValid /\ ~unblockedRay)
        => (last.Li = Zero /\ last.out.M # 0)

\* C13: two executions of a frame without history on identical inputs (G-buffer, light
\* samples, options, frameIndex, hence identical generator draws) give every pixel the
\* same selected light sample and the same weight.
C13_SameInputsSameOutput ==
    det.step = "spatial" =>
        /\ det.initialA = det.initialB
        /\ det.outA.lightSample = det.outB.lightSample
        /\ det.outA.weight = det.outB.weight

\* the light population an alias table of the kind stands for in the scene (none when
\* the kind is switched off or has no light)
PopulationOf(sc, kind) == IF sc.use[kind] /\ sc.pop[kind].count > 0 THEN TableSource(kind, sc.pop[kind]) ELSE [id |-> 0, count |-> 0]

\* what a table was built from
SourceOf(table) == IF table = NoTable THEN [id |-> 0, count |-> 0] ELSE table.builtFrom

\* prepareLighting drops or replaces a built table only if its population is no longer
\* the one it was built from
ReplacedOnlyIfChanged ==
    (pc = "prepareLighting" /\ pc' = "updatePrograms") =>
        \A k \in Kinds :
            (aliasTables[k] # NoTable /\ (k \in tablesBuilt' \/ aliasTables'[k] # aliasTables[k]))
                => PopulationOf(scene, k) # aliasTables[k].builtFrom

\* the light tiles of a frame are generated from tables built from that frame's populations
TilesFromCurrentTables ==
    (pc = "generateLightTiles" /\ pc' = "idle") =>
        \A k \in Kinds : SourceOf(aliasTables[k]) = PopulationOf(scene, k)

\* C14: an alias table, once built, is replaced in a frame only if its light population
\* (or its weights) changed since it was built, and after such a change the table is
\* rebuilt before the light tiles of that frame are generated.
C14_AliasTablesFollowPopulations == [][ReplacedOnlyIfChanged /\ TilesFromCurrentTables]_vars

\* the bit split fits the count: indexBits even, 2^indexBits > count, 30 bits in all
FitsEncoding(bits, count) ==
    /\ bits.indexBits % 2 = 0
    /\ bits.indexBits >= 0
    /\ 2^bits.indexBits > count
    /\ bits.indexBits + bits.positionBits = 30

\* C15: when the count of a light population does not fit the 30-bit encoding (its bit
\* length rounded up to even is >= 30, that is count >= 2^28) a RuntimeError is raised before any dispatch uses
\* that configuration; otherwise indexBits is even, 2^indexBits > count and
\* indexBits + positionBits = 30.
C15_LightCountFitsEncoding ==
    /\ pc = "generateLightTiles" =>
          \A k \in Kinds :
              aliasTables[k] # NoTable =>
                  /\ aliasTables[k].count < 2^28
                  /\ FitsEncoding(lightsDefines[k], aliasTables[k].count)
    /\ pc = "terminated" =>
          \E k \in Kinds : /\ aliasTables[k] # NoTable
                           /\ aliasTables[k].count >= 2^28
    /\ (\E k \in Kinds : /\ aliasTables[k] # NoTable
                          /\ aliasTables[k].count >= 2^28)
          => pc \in {"updatePrograms", "terminated"}

\* light tiles are about to be generated from a table of the largest count that fits,
\* compiled with 28 index bits
C15_Witness ==
    /\ pc = "generateLightTiles"
    /\ \E k \in Kinds : /\ aliasTables[k] # NoTable
                         /\ aliasTables[k].count = 2^28 - 1
                         /\ lightsDefines[k] = Bits(28, 2)

CandidateConfidence(canonical, candidate, useMFactor, candAtOther, canonAtOther) ==
    FMul(FromInt(candidate.M),
         IF useMFactor
         THEN mScaler(candidate.targetPdf, candAtOther, canonAtOther, canonical.targetPdf)
         ELSE One)

RECURSIVE NeighborConfidence(_, _, _)
NeighborConfidence(canonical, useMFactor, neigh) ==
    IF neigh = <<>> THEN Zero
    ELSE FAdd(CandidateConfidence(canonical, Head(neigh).res, useMFactor,
                  evalTargetFunction(TRUE, Head(neigh).res.lightSample, 2, Head(neigh).candRaw, Zero),
                  evalTargetFunction(Head(neigh).valid, canonical.lightSample, 2, Head(neigh).canonRaw, Zero)),
              NeighborConfidence(canonical, useMFactor, Tail(neigh)))

\* canonical M plus the confidence weights of the candidates the pass merged (the
\* temporal pass merges the history reservoir with its clamped M)
AccumulatedM ==
    IF uOp = "temporal"
    THEN FAdd(FromInt(uIn.canonical.M),
              CandidateConfidence(uIn.canonical, [uIn.prevReservoir EXCEPT !.M = uOut.reusedM],
                  uIn.useMFactor,
                  evalTargetFunction(TRUE, uIn.prevReservoir.lightSample, 2, uIn.in.candRaw, Zero),
                  evalTargetFunction(TRUE, uIn.canonical.lightSample, 2, uIn.in.canonRaw, Zero)))
    ELSE FAdd(FromInt(uIn.canonical.M),
              NeighborConfidence(uIn.canonical, uIn.useMFactor, uIn.neigh))

\* C17 as stated: after a temporal or a spatial pass the stored M equals the canonical
\* reservoir's M plus, for each merged candidate, that candidate's confidence weight M
\* (multiplied by the M-factor when useMFactor is on).
C17_StoredMIsAccumulatedM ==
    uOp \in {"temporal", "spatial"} => FromInt(uOut.reservoir.M) = AccumulatedM

\* C17: the temporal pass stores the accumulated M truncated to an unsigned integer, the
\* spatial pass stores the canonical reservoir's M, and a pass whose weight came out
\* Inf or NaN stores the empty reservoir (M = 0).
C17_StoredMByPass ==
    /\ uOp = "temporal" =>
          \/ IsEmptyReservoir(uOut.reservoir)
          \/ uOut.reservoir.M = ToUint(AccumulatedM)
    /\ uOp = "spatial" =>
          \/ IsEmptyReservoir(uOut.reservoir)
          \/ uOut.reservoir.M = uIn.canonical.M

\* a spatial pass merged a neighbour with M > 0 and stored the canonical M
C17_Witness ==
    /\ uOp = "spatial"
    /\ uIn.neigh[1].res.M > 0
    /\ ~IsEmptyReservoir(uOut.reservoir)
    /\ uOut.reservoir.M = uIn.canonical.M
    /\ FromInt(uOut.reservoir.M) # AccumulatedM

(***************************************************************************)
(* Properties of the host                                                  *)
(***************************************************************************)
TemporalDispatched == \E i \in DOMAIN dispatches : dispatches[i].stage = "temporalResampling"

AfterTemporalStage == pc \in {"spatialResampling", "evaluateFinalSamples", "endFrame"}

\* C7: the temporal pass is not dispatched in the first frame nor in a frame whose
\* programs were recompiled; the reset request is consumed by that one frame (the flag
\* is clear once the temporal stage has run); in every other frame with
\* useTemporalResampling enabled the pass is dispatched.
C7_TemporalDispatchRule ==
    AfterTemporalStage =>
        /\ (frameCount = 1 => recompiled)
        /\ (recompiled => ~TemporalDispatched)
        /\ (~recompiled => (TemporalDispatched <=> mOptions.useTemporalResampling))
        /\ ~mResetTemporalReservoirs

\* a later frame without recompilation that dispatched the temporal pass
C7_Witness ==
    /\ pc = "endFrame"
    /\ frameCount > 1
    /\ ~recompiled
    /\ mOptions.useTemporalResampling
    /\ TemporalDispatched

\* no entry written by two threads, none read by a thread other than its writer
RaceFree(d) ==
    \A t1 \in Threads(d), t2 \in Threads(d) :
        t1 # t2 => Writes(d, t1) \cap (Writes(d, t2) \cup Reads(d, t2)) = {}

\* the buffers a dispatch writes
WrittenBuffers(d) == { a[1] : a \in UNION { Writes(d, t) : t \in Threads(d) } }

\* the entries of other pixels a thread reads lie in read-only buffers of the dispatch
ReadsOthersFromReadOnly(d) ==
    /\ d.stage \in {"temporalResampling", "spatialResampling"} =>
          /\ d.prevReservoirs # d.reservoirs
          /\ d.prevResEvalContext # d.resEvalContext
    /\ \A t \in Threads(d) : \A a \in Reads(d, t) \ Writes(d, t) :
          a[1] \notin WrittenBuffers(d)

InFrame == pc \notin {"idle", "terminated"}

\* C9 as stated: within a frame no stage writes into the buffers that held the previous
\* frame's reservoirs and contexts at frame start, and nothing but endFrame changes
\* which buffers are the previous-frame ones.
C9_NoWriteIntoPrevFrameBuffers ==
    InFrame =>
        /\ \A i \in DOMAIN dispatches : WrittenBuffers(dispatches[i]) \cap prevAtStart = {}
        /\ PrevBuffers(resources) = prevAtStart

SpatialDispatched == \E i \in DOMAIN dispatches : dispatches[i].stage = "spatialResampling"

\* C9 amended: the stages up to and including temporal resampling never write into the
\* buffers that held the previous frame's reservoirs and contexts at frame start, and no
\* temporal dispatch follows a write into them; the previous pixel-centre contexts are
\* never written; the previous-frame pointers differ from those at frame start only
\* once a spatial iteration has swapped them.
C9_PrevBuffersIntactUntilSpatial ==
    InFrame =>
        /\ \A i \in DOMAIN dispatches :
              dispatches[i].stage \notin {"spatialResampling", "evaluateFinalSamples"}
                  => WrittenBuffers(dispatches[i]) \cap prevAtStart = {}
        /\ \A i \in DOMAIN dispatches, j \in DOMAIN dispatches :
              (i < j /\ WrittenBuffers(dispatches[i]) \cap prevAtStart # {})
                  => dispatches[j].stage # "temporalResampling"
        /\ resources["pPrevPixelCenterEvalContext"].id \in prevAtStart
        /\ \A i \in DOMAIN dispatches :
              resources["pPrevPixelCenterEvalContext"].id \notin WrittenBuffers(dispatches[i])
        /\ (PrevBuffers(resources) # prevAtStart => SpatialDispatched)

\* a frame whose spatial iteration wrote into the buffer the temporal pass had read
C9_Witness ==
    /\ pc = "endFrame"
    /\ TemporalDispatched
    /\ \E i \in DOMAIN dispatches :
          /\ dispatches[i].stage = "spatialResampling"
          /\ dispatches[i].reservoirs \in prevAtStart

IsResamplingDispatch(d) == d.stage # "updateEmissiveTriangles"

\* the stage, iteration and pass of the dispatches of the resampling pipeline so far
ResamplingLog ==
    LET ds == SelectSeq(dispatches, IsResamplingDispatch)
    IN [i \in DOMAIN ds |-> <<ds[i].stage, ds[i].iteration, ds[i].pass>>]

\* stage s dispatched once per pass
PassesOf(s, iteration, numPasses) == [i \in 1..numPasses |-> <<s, iteration, i - 1>>]

RECURSIVE IterationsOf(_, _, _)
IterationsOf(iteration, iterations, numPasses) ==
    IF iteration >= iterations THEN <<>>
    ELSE PassesOf("spatialResampling", iteration, numPasses)
         \o IterationsOf(iteration + 1, iterations, numPasses)

\* the dispatches of a complete updateReSTIRDI
ExpectedLog ==
    <<<<"generateLightTiles", 0, 0>>>>
    \o PassesOf("initialResampling", 0, mOptions.numReSTIRPasses)
    \o (IF ~recompiled /\ mOptions.useTemporalResampling
        THEN PassesOf("temporalResampling", 0, mOptions.numReSTIRPasses) ELSE <<>>)
    \o (IF mOptions.useSpatialResampling
        THEN IterationsOf(0, mOptions.spatialIterations, mOptions.numReSTIRPasses)
        ELSE <<>>)
    \o <<<<"evaluateFinalSamples", 0, 0>>>>

IsPrefix(a, b) == Len(a) <= Len(b) /\ \A i \in DOMAIN a : a[i] = b[i]

\* C10: updateReSTIRDI runs light tiles, initial, temporal, spatial (all iterations) and
\* final in this order, every stage with all its passes before the next stage starts;
\* only temporal (reset or disabled) and spatial (disabled) are left out.
C10_StageOrder ==
    InFrame =>
        /\ IsPrefix(ResamplingLog, ExpectedLog)
        /\ (pc = "endFrame" => ResamplingLog = ExpectedLog)

\* a complete frame with temporal and two spatial iterations over two passes
C10_Witness ==
    /\ pc = "endFrame"
    /\ TemporalDispatched
    /\ mOptions.useSpatialResampling
    /\ mOptions.spatialIterations = MaxSpatialIterations
    /\ mOptions.numReSTIRPasses = MaxPasses

\* C18: at the start of every frame after the first the buffers bound as previous-frame
\* reservoirs and eval-contexts hold exactly what the last resampling stage of the
\* preceding frame wrote, whatever spatialIterations is, and reservoir and eval-context
\* buffers are swapped together: a reservoir buffer holds that output exactly when the
\* context buffer bound with it does.
C18_PrevBuffersHoldLastOutput ==
    /\ (pc = "prepareLighting" /\ frameCount > 1) =>
          /\ resources["pPrevReservoirs"].id = lastWritten.reservoirs
          /\ resources["pPrevResEvalContext"].id = lastWritten.resEvalContext
          /\ ~lastWritten.hitCleared
    /\ lastWritten # NoOutput =>
          /\ (resources["pReservoirs"].id = lastWritten.reservoirs
                 <=> resources["pResEvalContext"].id = lastWritten.resEvalContext)
          /\ (resources["pPrevReservoirs"].id = lastWritten.reservoirs
                 <=> resources["pPrevResEvalContext"].id = lastWritten.resEvalContext)

\* sampleWeight = misWeight * targetPdf / sourcePdf of the call
CallSampleWeight == FDiv(FMul(uIn.misWeight, uIn.targetPdf), uIn.sourcePdf)

\* u * weightSum_new < sampleWeight
CallSelects == FLt(FMul(uIn.u, FAdd(uIn.state.weightSum, CallSampleWeight)), CallSampleWeight)

\* C19: each call of streamingInitialResampleMIS increases M by exactly 1, adds
\* sampleWeight = misWeight * targetPdf / sourcePdf to weightSum, and replaces the held
\* sample and its targetPdf if and only if u * weightSum_new < sampleWeight; no other
\* field of the state changes.
C19_InitialResampleStep ==
    uOp = "initialResample" =>
        /\ \A out \in {uOut.light, uOut.path} :
              /\ out.M = FAdd(uIn.state.M, One)
              /\ out.weightSum = FAdd(uIn.state.weightSum, CallSampleWeight)
              /\ out.targetPdf = (IF CallSelects THEN uIn.targetPdf ELSE uIn.state.targetPdf)
              /\ out.weight = uIn.state.weight
              /\ out.canonicalWeight = uIn.state.canonicalWeight
              /\ DOMAIN out = DOMAIN uIn.state
        /\ uOut.light.lightSample = (IF CallSelects THEN uIn.lightSample ELSE uIn.state.lightSample)
        /\ uOut.light.pathSample = uIn.state.pathSample
        /\ uOut.path.pathSample = (IF CallSelects THEN uIn.pathSample ELSE uIn.state.pathSample)
        /\ uOut.path.lightSample = uIn.state.lightSample

\* a call replaced the invalid held sample by the candidate and counted it
C19_Witness ==
    /\ uOp = "initialResample"
    /\ CallSelects
    /\ uIn.state.lightSample = Invalid
    /\ uOut.light.lightSample = uIn.lightSample
    /\ uIn.state.M = One
    /\ uOut.light.M = Two

\* (min(a, b) / max(a, b))^8 clamped to [0, 1]
SymmetricRatio8(a, b) == FClamp(FPow8(FDiv(FMin(a, b), FMax(a, b))), Zero, One)

\* C20 as stated: the M-factor that scales a merged candidate's M equals
\* (min(a, b) / max(a, b))^8 clamped to [0, 1] for the target values a and b of the
\* candidate's sample at the two evaluation points (not both 0); it is symmetric in a
\* and b and lies in [0, 1].
C20_MFactorIsSymmetricRatio ==
    (uOp = "mFactor" /\ FGt(FMax(uIn.a, uIn.b), Zero)) =>
        /\ uOut.mScaler = SymmetricRatio8(uIn.a, uIn.b)
        /\ mFactor(uIn.a, uIn.b) = mFactor(uIn.b, uIn.a)
        /\ FGe(uOut.mScaler, Zero) /\ FLe(uOut.mScaler, One)

\* C20: mFactor(q0, q1) is 1 when q0 = 0 or q1 >= q0 and (q1 / q0)^8 when the value
\* falls (q1 < q0); the scale of a merged candidate's M is the smaller of the factor of
\* the candidate's sample and the factor of the canonical sample, and lies in [0, 1].
C20_MFactorOneSided ==
    uOp = "mFactor" =>
        /\ uOut.candidate = (IF uIn.a # Zero /\ FLt(uIn.b, uIn.a)
                             THEN FPow8(FDiv(uIn.b, uIn.a)) ELSE One)
        /\ uOut.canonical = (IF uIn.c # Zero /\ FLt(uIn.d, uIn.c)
                             THEN FPow8(FDiv(uIn.d, uIn.c)) ELSE One)
        /\ uOut.mScaler = FMin(uOut.candidate, uOut.canonical)
        /\ FGe(uOut.mScaler, Zero) /\ FLe(uOut.mScaler, One)

\* the value of the candidate's sample rises from 1/2 to 1: the factor is 1, not (1/2)^8
C20_Witness ==
    /\ uOp = "mFactor"
    /\ uIn.a = Half /\ uIn.b = One
    /\ uOut.candidate = One
    /\ SymmetricRatio8(uIn.a, uIn.b) = Rat(1, 256)


\* the neighbours that pass the bounds test and the rejection tests
PassingNeighbors == { i \in DOMAIN uIn.nb : uIn.nb[i].inFrame /\ uIn.nb[i].passes }

RECURSIVE SumOfM(_)
SumOfM(is) == IF is = {} THEN 0 ELSE LET i == CHOOSE j \in is : TRUE IN uIn.nb[i].M + SumOfM(is \ {i})

\* C21: in SpatialResampling::process with neighborCount <= 32 the confidence-weight sum
\* is the canonical M plus the M of exactly the neighbours that pass the bounds and the
\* rejection tests, every merge receives that sum, and the second loop merges exactly
\* the neighbours the first loop counted, each once.
C21_SpatialLoopsAgree ==
    (uOp = "spatialLoops" /\ uIn.neighborCount <= 32) =>
        /\ uOut.confidenceWeightSum = uIn.currentM + SumOfM(PassingNeighbors)
        /\ { uOut.merged[k].neighbor : k \in DOMAIN uOut.merged } = PassingNeighbors
        /\ Len(uOut.merged) = Cardinality(PassingNeighbors)
        /\ \A k \in DOMAIN uOut.merged :
               uOut.merged[k].confidenceWeightSum = uOut.confidenceWeightSum

\* 32 neighbours of which one is outside the frame and one is rejected by the tests
C21_Witness ==
    /\ uOp = "spatialLoops"
    /\ uIn.neighborCount = 32
    /\ ~uIn.nb[0].inFrame
    /\ uIn.nb[1].inFrame /\ ~uIn.nb[1].passes
    /\ uIn.nb[31].inFrame /\ uIn.nb[31].passes
    /\ Len(uOut.merged) = 30


\* dot(N, N_other) >= normalThreshold
NormalTest == FGe(uIn.dotN, uIn.normalThreshold)

\* |depth - depth_other| <= depthThreshold * depth
DepthTest ==
    LET diff == FSub(uIn.depth, uIn.otherDepth)
    IN FLe(IF FLt(diff, Zero) THEN FNeg(diff) ELSE diff, FMul(uIn.depthThreshold, uIn.depth))

\* C22: with neighbour rejection enabled, a spatial neighbour is accepted only if both
\* the normal test and the relative depth test pass.
C22_AcceptedPassesNormalAndDepth ==
    (uOp = "neighborTest" /\ uIn.rejectNeighborPixelForNormalDepth /\ uOut.accepted) =>
        NormalTest /\ DepthTest

\* the half of the test the code keeps: an accepted neighbour passes the normal test
AcceptedPassesNormal ==
    (uOp = "neighborTest" /\ uIn.rejectNeighborPixelForNormalDepth /\ uOut.accepted) =>
        NormalTest


\* the stored reservoir holds no light sample and has weight 0
SampleDiscarded == ~isValid(uOut.occluded.lightSample) /\ uOut.occluded.weight = Zero

\* C23: when the initial visibility test finds the selected candidate occluded, the
\* stored reservoir has no valid light sample and weight 0, and its M is the M the
\* reservoir would have had with the sample visible.
C23_OccludedDiscardedKeepsM ==
    (uOp = "initialVisibility" /\ uIn.tested) =>
        SampleDiscarded /\ uOut.occluded.M = uOut.visible.M

\* the occluded sample is discarded and the stored M is 1
OccludedStoresOne ==
    (uOp = "initialVisibility" /\ uIn.tested) => SampleDiscarded /\ uOut.occluded.M = 1

\* the M is kept whenever the visible sample's weight is a finite number
OccludedKeepsMOfFiniteWeight ==
    (uOp = "initialVisibility" /\ uIn.tested /\ isValid(uOut.visible.lightSample)) =>
        uOut.occluded.M = uOut.visible.M


(***************************************************************************)
(* Properties of the reservoir-slot variant                                *)
(***************************************************************************)
ResamplingPasses == {"spatialResampling", "temporalResampling", "spatiotemporalResampling"}

ValidSlots == 0..(kMaxReservoirs - 1)

\* the resampling dispatches of the frame's update()
ResamplingDispatches ==
    { slotDispatches[k] : k \in { j \in DOMAIN slotDispatches :
                                     slotDispatches[j].pass \in ResamplingPasses } }

\* C24: after any sequence of frames and setOptions calls, every resampling dispatch of
\* update() writes a valid slot that differs from every slot it reads; a temporal or
\* spatiotemporal pass reads the candidate slot 2 and a last-frame slot in {0, 1} and
\* writes the other slot of {0, 1}; mLastFrameReservoirID names the slot written last.
C24_SlotsValidAndDistinct ==
    slotPc = "endFrame" =>
        /\ \A d \in ResamplingDispatches :
              /\ d.writes \in ValidSlots
              /\ d.reads \subseteq ValidSlots
              /\ d.writes \notin d.reads
              /\ d.pass # "spatialResampling" =>
                    \E lastFrameReservoirID \in {0, 1} :
                       /\ d.reads = {lastFrameReservoirID, kCandidateReservoirID}
                       /\ d.writes = 1 - lastFrameReservoirID
        /\ mLastFrameReservoirID = slotDispatches[Len(slotDispatches)].writes

\* a temporal pass that reads slot 0 as the last frame's output and writes slot 1
C24_Witness ==
    /\ slotPc = "endFrame"
    /\ slotOptions.mode = "TemporalResampling"
    /\ \E d \in ResamplingDispatches : d.reads = {0, kCandidateReservoirID} /\ d.writes = 1
    /\ mLastFrameReservoirID = 1

\* C25: the reservoir buffer is cleared in beginFrame, before the frame's update(), exactly
\* when since the previous frame setOptions changed the mode, testCandidateVisibility or
\* the tile configuration or set envLightCandidateCount to 0, or the frame dimensions
\* changed; a frame without such a change does not clear it.
C25_ClearedOncePerChange ==
    slotPc = "update" => (clearedInFrame <=> clearRequested)

\* a frame that clears the buffer although the mode did not change since a frame of
\* NoResampling or SpatialResampling left its output in slot 2
C25_Witness ==
    /\ slotPc = "update"
    /\ clearedInFrame
    /\ clearRequested
    /\ mLastFrameReservoirID = kCandidateReservoirID

\* C29: every Options value setOptions accepts satisfies the preconditions asserted by
\* the constructor of restir::Context when beginFrame rebuilds the context: tile size
\* and tile count are non-zero powers of two.
C29_ContextPreconditionsHold ==
    /\ slotPc # "aborted"
    /\ mpRESTIRContext # NullContext =>
          /\ IsNonzeroPowerOf2(mpRESTIRContext.TileSize)
          /\ IsNonzeroPowerOf2(mpRESTIRContext.TileCount)

\* the stored tile configuration lies in the ranges validateRange clamps to
TilesInRange ==
    /\ slotOptions.tiles.presampledTileCount \in kMinPresampledTileCount..kMaxPresampledTileCount
    /\ slotOptions.tiles.presampledTileSize \in kMinPresampledTileSize..kMaxPresampledTileSize


(***************************************************************************)
(* Properties of a host that passes the same Options before every frame    *)
(***************************************************************************)
\* from the second frame on a frame with temporal reuse enabled dispatches it
TemporalRunsAfterFirstFrame ==
    (frameCount >= 2 /\ AfterTemporalStage /\ hostOptions.useTemporalResampling) =>
        TemporalDispatched

\* C26: when the host passes the same Options value to setOptions before every frame,
\* the programs are recompiled and the temporal history is reset at most once, whatever
\* the Options value, and temporal resampling is not skipped in every frame.
C26_SameOptionsRecompileOnce == recompilations <= 1 /\ TemporalRunsAfterFirstFrame

\* the same for the Options values whose resampleEmissionMode is None
SameOptionsWithoutEmissionMode ==
    hostOptions.resampleEmissionMode = "None" => C26_SameOptionsRecompileOnce


(***************************************************************************)
(* Properties of the light-tile slots                                      *)
(***************************************************************************)
\* every slot read lies in the selected tile, and the tile exists
SlotsInsideTile ==
    uOp = "lightTileSlots" =>
        /\ uOut.tileIndex < uIn.kLightTileCount
        /\ \A i \in DOMAIN uOut.index :
              /\ uOut.index[i] >= uOut.tileIndex * uIn.kLightTileSize
              /\ uOut.index[i] < (uOut.tileIndex + 1) * uIn.kLightTileSize

\* C27: for 1 <= kInitialLightSampleCount <= kLightTileSize the light-tile slots a pixel
\* reads are pairwise distinct and all lie inside the selected tile, whose index is
\* below kLightTileCount.
C27_TileSlotsDistinctInsideTile ==
    (uOp = "lightTileSlots" /\ uIn.kInitialLightSampleCount >= 1
        /\ uIn.kInitialLightSampleCount <= uIn.kLightTileSize) =>
        /\ SlotsInsideTile
        /\ \A i \in DOMAIN uOut.index : \A j \in DOMAIN uOut.index :
              i # j => uOut.index[i] # uOut.index[j]

\* the slots are distinct when the strides of all samples fit into the tile
SlotsDistinctWhenStridesFit ==
    (uOp = "lightTileSlots"
        /\ (uIn.kInitialLightSampleCount - 1)
             * StrideOf(uIn.kLightTileSize, uIn.kInitialLightSampleCount) < uIn.kLightTileSize) =>
        \A i \in DOMAIN uOut.index : \A j \in DOMAIN uOut.index :
            i # j => uOut.index[i] # uOut.index[j]

(***************************************************************************)
(* Properties of the pathSample tag                                        *)
(***************************************************************************)
ResamplingStages == {"temporal", "spatial"}

\* C28: temporal and spatial resampling never change a pixel's pathSample: the reservoir
\* a stage writes for a pixel carries the pathSample of the pixel's reservoir on entry,
\* whichever sample (candidate or canonical) is selected and also when the reservoir
\* collapses to empty.
C28_PathSampleKept ==
    uOp = "pathSample" =>
        uOut.reservoir.pathSample = uIn.currentReservoir.pathSample

\* a stage selected the sample of a history reservoir with the other tag, and the pixel
\* kept its own tag
C28_Witness ==
    /\ uOp = "pathSample" /\ uIn.resamplingStage = "temporal"
    /\ uIn.currentReservoir.pathSample = 1 /\ ~isValid(uIn.currentReservoir.lightSample)
    /\ uIn.candidateReservoir.pathSample = 2
    /\ isValid(uOut.reservoir.lightSample)
    /\ uOut.reservoir.pathSample = 1

\* the tag also survives the collapse to the empty reservoir
PathSampleKeptOnCollapse ==
    (uOp = "pathSample" /\ (IsInf(uOut.risWeight) \/ IsNaN(uOut.risWeight))) =>
        uOut.reservoir = ReservoirCreateEmpty(uIn.currentReservoir.pathSample)

\* a collapse happens for a pixel carrying the path tag, in either stage
CollapseOfTaggedReached ==
    /\ uOp = "pathSample" /\ uIn.resamplingStage = "spatial"
    /\ uIn.currentReservoir.pathSample = 1 /\ uIn.candidateReservoir.pathSample = 2
    /\ (IsInf(uOut.risWeight) \/ IsNaN(uOut.risWeight))

\* within a frame of the pass the two stages keep the tag of every pixel they write
StagesKeepPathSampleInFrame ==
    (last.wrote /\ last.stage \in ResamplingStages) =>
        last.out.pathSample = last.canonical.pathSample

(***************************************************************************)
(* Properties of the packed reservoir                                      *)
(***************************************************************************)
\* C30: for a reservoir with packedVisibility < 2^18 and finite weightSum, unpacking the
\* packed reservoir returns lightData, uvData, targetPdf, weightSum and packedVisibility
\* unchanged, and M, age and both spatialDistance components clamped to [0, 16383],
\* [0, 255] and [-127, 127]: unchanged when inside these ranges, the nearest bound
\* otherwise.
C30_PackUnpackRoundTrip ==
    (uOp = "packReservoir" /\ uIn.packedVisibility < 2^18 /\ IsFinite(uIn.weightSum)) =>
        /\ uOut.unpacked.lightData = uIn.lightData
        /\ uOut.unpacked.uvData = uIn.uvData
        /\ uOut.unpacked.targetPdf = uIn.targetPdf
        /\ uOut.unpacked.weightSum = uIn.weightSum
        /\ uOut.unpacked.packedVisibility = uIn.packedVisibility
        /\ uOut.unpacked.M = FromInt(clamp(ToUint(uIn.M), 0, 16383))
        /\ uOut.unpacked.age = clamp(uIn.age, 0, 255)
        /\ uOut.unpacked.spatialDistance =
              <<clamp(uIn.spatialDistance[1], -127, 127),
                clamp(uIn.spatialDistance[2], -127, 127)>>

\* a reservoir at the limits of every packed field, with negative distances, came back
C30_Witness ==
    /\ uOp = "packReservoir"
    /\ uIn.M = FromInt(16383) /\ uIn.packedVisibility = 262143 /\ uIn.age = 255
    /\ uIn.spatialDistance = <<-127, -5>> /\ uIn.weightSum = Half
    /\ uOut.unpacked.M = uIn.M /\ uOut.unpacked.spatialDistance = uIn.spatialDistance
    /\ uOut.unpacked.age = 255 /\ uOut.unpacked.packedVisibility = 262143

\* values beyond the limits came back as the nearest bound
ClampedFieldsReached ==
    /\ uOp = "packReservoir"
    /\ uIn.M = FromInt(20000) /\ uIn.age = 1000 /\ uIn.spatialDistance = <<-200, 127>>
    /\ uOut.unpacked.M = FromInt(16383) /\ uOut.unpacked.age = 255
    /\ uOut.unpacked.spatialDistance = <<-127, 127>>

\* a reservoir whose weightSum is Inf or NaN is loaded as the empty reservoir
NonFiniteLoadsEmpty ==
    (uOp = "packReservoir" /\ ~IsFinite(uIn.weightSum)) =>
        uOut.unpacked = RESTIR_EmptyReservoir

\* a visibility word of more than 18 bits reaches into the sample count
WideVisibilityChangesM ==
    /\ uOp = "packReservoir" /\ uIn.packedVisibility = 262144 /\ uIn.M = Zero
    /\ uOut.unpacked.M = One

====
